---------------------------- MODULE Spec2Model ----------------------------
(***************************************************************************)
(* Numerical analytic continuation of D-finite functions (ore_algebra,     *)
(* package ore_algebra.analytic): the path model (Point / Step / Path),    *)
(* the choice of the summation backend and the recovery from precision     *)
(* failures by step splitting.                                             *)
(*                                                                         *)
(* Points lie on the real line and have exact rational coordinates; a      *)
(* rational is a pair <<numerator, denominator>> in lowest terms with a    *)
(* positive denominator.  The enclosures of ball arithmetic are closed     *)
(* intervals with rational endpoints; rounding errors of the 53-bit        *)
(* arithmetic are below the resolution of the model.                       *)
(***************************************************************************)
EXTENDS Integers, Sequences, FiniteSets, TLC

(***************************************************************************)
(* Bounds of the model                                                     *)
(***************************************************************************)
\* largest split budget (max_split) of a step handed to step_transition_matrix
MaxBudget == 1
\* largest number of vertices of an input path
MaxPathLen == 3

(***************************************************************************)
(* Program constants                                                       *)
(***************************************************************************)
\* Step.__init__: self.max_split = 3 if max_split is None else max_split
DefaultMaxSplit == 3

(***************************************************************************)
(* Exact rational arithmetic                                               *)
(***************************************************************************)
Abs(n) == IF n < 0 THEN -n ELSE n

RECURSIVE Gcd(_, _)
Gcd(a, b) == IF b = 0 THEN a ELSE Gcd(b, a % b)

\* the rational n/d (d # 0) in lowest terms
Q(n, d) ==
    LET g == Gcd(Abs(n), Abs(d))
        s == IF d < 0 THEN -1 ELSE 1
    IN  <<(s * n) \div g, (s * d) \div g>>

QInt(n) == <<n, 1>>
QAdd(a, b) == Q(a[1] * b[2] + b[1] * a[2], a[2] * b[2])
QSub(a, b) == Q(a[1] * b[2] - b[1] * a[2], a[2] * b[2])
QMul(a, b) == Q(a[1] * b[1], a[2] * b[2])
QDiv(a, b) == Q(a[1] * b[2], a[2] * b[1])
QNeg(a) == <<-a[1], a[2]>>
QAbs(a) == <<Abs(a[1]), a[2]>>
QLt(a, b) == a[1] * b[2] < b[1] * a[2]
QLe(a, b) == a[1] * b[2] <= b[1] * a[2]
QMin(a, b) == IF QLe(a, b) THEN a ELSE b
QFloor(a) == a[1] \div a[2]
QCeil(a) == -((-a[1]) \div a[2])
QSign(a) == IF a[1] < 0 THEN <<-1, 1>> ELSE IF a[1] = 0 THEN <<0, 1>> ELSE <<1, 1>>

\* RealIntervalField.simplest_rational: the rational of least denominator (and
\* then of least absolute value) in the closed interval [lo, hi]
RECURSIVE simplest_rational(_, _)
simplest_rational(lo, hi) ==
    IF QLe(lo, <<0, 1>>) /\ QLe(<<0, 1>>, hi) THEN <<0, 1>>
    ELSE IF QLt(hi, <<0, 1>>) THEN QNeg(simplest_rational(QNeg(hi), QNeg(lo)))
    ELSE IF QLe(QInt(QCeil(lo)), hi) THEN QInt(QCeil(lo))
    ELSE LET n == QInt(QFloor(lo))
             r == simplest_rational(QDiv(<<1, 1>>, QSub(hi, n)),
                                    QDiv(<<1, 1>>, QSub(lo, n)))
         IN  QAdd(n, QDiv(<<1, 1>>, r))


\* IR(rings.infinity): larger than every rational
QInfinity == <<1, 0>>

(***************************************************************************)
(* Differential operators.  An operator is known by its order, its degree, *)
(* the roots of its leading coefficient (sing) and those of these roots    *)
(* where the Fuchs criterion fails (irr).                                  *)
(***************************************************************************)
\* x*Dx^2 + Dx + x: order 2, degree 1, regular singular point 0
DopBessel == [order |-> 2, degree |-> 1, sing |-> {<<0, 1>>}, irr |-> {}]
\* x^2*Dx + 1: order 1, degree 2, irregular singular point 0
DopIrregular == [order |-> 1, degree |-> 2, sing |-> {<<0, 1>>}, irr |-> {<<0, 1>>}]
\* a nonzero constant: order 0, no singular point
DopOrderZero == [order |-> 0, degree |-> 0, sing |-> {}, irr |-> {}]
\* x*(x-8)*Dx - 1: order 1, degree 2, regular singular points 0 and 8
DopTwoSing == [order |-> 1, degree |-> 2, sing |-> {<<0, 1>>, <<8, 1>>}, irr |-> {}]

(***************************************************************************)
(* Points: [id, value, exact].  Point equality is identity (id).           *)
(***************************************************************************)
Point(id, value, exact) == [id |-> id, value |-> value, exact |-> exact]

\* Point.is_ordinary: the leading coefficient does not vanish at the point
is_ordinary(p, dop) == p.value \notin dop.sing

is_singular(p, dop) == ~is_ordinary(p, dop)

\* Point.is_regular: ordinary, or singular with the Fuchs criterion satisfied
is_regular(p, dop) == is_ordinary(p, dop) \/ p.value \notin dop.irr

is_regular_singular(p, dop) == ~is_ordinary(p, dop) /\ is_regular(p, dop)

RECURSIVE QMinOfSet(_)
QMinOfSet(S) ==
    IF S = {} THEN QInfinity
    ELSE LET x == CHOOSE y \in S : TRUE
         IN  QMin(x, QMinOfSet(S \ {x}))

\* Point.dist_to_sing: distance to the singularities other than the point itself
dist_to_sing(p, dop) ==
    QMinOfSet({QAbs(QSub(p.value, s)) : s \in dop.sing \ {p.value}})

\* _rationalize(civ): the simplest rational of the enclosure [lo, hi]
rationalize_iv(lo, hi) == simplest_rational(lo, hi)

(***************************************************************************)
(* Steps: [start, end, type, branch, max_split]                            *)
(***************************************************************************)
BranchDefault == "(0,)"

\* Step.__init__ with branch=None and max_split=None replaced by the defaults
Step(start, end, type, branch, max_split) ==
    [start |-> start, end |-> end, type |-> type,
     branch |-> IF branch = "None" THEN BranchDefault ELSE branch,
     max_split |-> IF max_split = -1 THEN DefaultMaxSplit ELSE max_split]

step_is_exact(step) == step.start.exact /\ step.end.exact

\* Step.delta
delta(step) == QSub(step.end.value, step.start.value)

\* Step.length
length(step) == QAbs(delta(step))

\* variant of split_mid that cuts every step in the middle
split_mid_always_half(step, dop) ==
    QDiv(QAdd(step.start.value, step.end.value), <<2, 1>>)

\* the cutting point of Step.split before rationalization
split_mid(step, dop) ==
    IF is_singular(step.start, dop)
    THEN QDiv(QAdd(step.start.value, QMul(<<2, 1>>, step.end.value)), <<3, 1>>)
    ELSE IF is_singular(step.end, dop)
    THEN QDiv(QAdd(QMul(<<2, 1>>, step.start.value), step.end.value), <<3, 1>>)
    ELSE QDiv(QAdd(step.start.value, step.end.value), <<2, 1>>)

\* the two sub-steps of Step.split: both are built on one Point object mid
split_substeps(step, mid, id) ==
    <<Step(step.start, Point(id, mid, TRUE), "split", step.branch, step.max_split - 1),
      Step(Point(id, mid, TRUE), step.end, "split", "None", step.max_split - 1)>>

\* Step.split; id is the identity of the Point returned by mid.rationalize()
\* (the Point built before it takes id - 1)
split(step, dop, id) ==
    IF step.max_split <= 0 THEN [exn |-> "ValueError", sub |-> <<>>]
    ELSE LET mid == split_mid(step, dop)
         IN  IF mid \in dop.sing
             THEN [exn |-> "PathPrecisionError", sub |-> <<>>]
             ELSE [exn |-> "none",
                   sub |-> split_substeps(step, rationalize_iv(mid, mid), id)]

\* variant of singularities that only leaves out the start of the step
singularities_but_start(step, dop) ==
    {s \in dop.sing \ {step.start.value} :
        ~QLt(QDiv(delta(step), QSub(s, step.start.value)), <<1, 1>>)}

\* Step.singularities on the real line: the singular points s, other than the
\* endpoints, with (end - start)/(s - start) not < 1
singularities(step, dop) ==
    {s \in dop.sing \ {step.start.value, step.end.value} :
        ~QLt(QDiv(delta(step), QSub(s, step.start.value)), <<1, 1>>)}

\* Step.check_singularity: TRUE iff it raises
step_check_singularity(step, dop) == singularities(step, dop) # {}

\* variant of step_check_convergence that accepts a step as long as the
\* distance to the singularities
step_check_convergence_strict(step, dop) ==
    LET ref == IF is_regular_singular(step.end, dop) THEN step.end ELSE step.start
    IN  QLt(dist_to_sing(ref, dop), length(step))

\* Step.check_convergence: TRUE iff it raises
step_check_convergence(step, dop) ==
    LET ref == IF is_regular_singular(step.end, dop) THEN step.end ELSE step.start
    IN  QLe(dist_to_sing(ref, dop), length(step))

(***************************************************************************)
(* Contexts                                                                *)
(***************************************************************************)
\* Context.__init__: algorithm in [None, "naive", "binsplit"], force_algorithm
Contexts == [algorithm : {"None", "naive", "binsplit"}, force_algorithm : BOOLEAN]

prefer_binsplit(c) == c.algorithm = "binsplit"

\* variant of force_binsplit that ignores the preferred algorithm's being forced
force_binsplit_never(c) == FALSE

force_binsplit(c) == prefer_binsplit(c) /\ c.force_algorithm

prefer_naive(c) == c.algorithm = "naive"

\* variant of force_naive that holds in every context
force_naive_always(c) == TRUE

force_naive(c) == prefer_naive(c) /\ c.force_algorithm

(***************************************************************************)
(* Transition matrices are kept symbolic: a matrix is a word, the sequence *)
(* of the factors of a product, leftmost factor first.  A factor is the    *)
(* matrix a summation backend returned for [start a, end b, rows, eps],    *)
(* possibly inverted, or a trivial matrix.  eps = k stands for the         *)
(* tolerance eps0 / 2^k.                                                   *)
(***************************************************************************)
Factor(kind, a, b, rows, eps) ==
    [kind |-> kind, a |-> a, b |-> b, rows |-> rows, eps |-> eps, inv |-> FALSE]

\* variant of MatMul with the factors in the other order
MatMulSwapped(m1, m0) == m0 \o m1

\* m1 * m0
MatMul(m1, m0) == m1 \o m0

\* ~mat
MatInverse(mat) ==
    [i \in 1..Len(mat) |->
        [mat[Len(mat) + 1 - i] EXCEPT !.inv = ~mat[Len(mat) + 1 - i].inv]]

\* the result of a call: a value or a raised exception
Value(mat) == [kind |-> "value", mat |-> mat, exn |-> "none"]
Raise(exn) == [kind |-> "raise", mat |-> <<>>, exn |-> exn]

PrecisionErrors == {"PrecisionError", "BoundPrecisionError"}

\* what a call of naive_sum.fundamental_matrix_regular may do
NaiveOutcomes == {"ok", "PrecisionError", "BoundPrecisionError", "ZeroDivisionError"}
\* what a call of binary_splitting.fundamental_matrix_regular may do
BinsplitOutcomes == {"ok", "NotImplementedError", "PrecisionError"}
\* values of the estimated number of terms of _use_binsplit
TermsEstimates == {256, 384}

\* _use_binsplit, terms_est being logprec/logratio.min(logprec.log())
use_binsplit(dop, step, terms_est) ==
    IF step_is_exact(step) /\ step.branch = BranchDefault
    THEN terms_est >= 256 + 32 * dop.degree * dop.degree
    ELSE FALSE

\* args = (ldop, step.evpt(rows), eps, fail_fast, effort, ctx)
BackendArgs(step, eps, rows, fail_fast, effort) ==
    [start |-> step.start.value, pt |-> delta(step), jet_order |-> rows,
     branch |-> step.branch, eps |-> eps, fail_fast |-> fail_fast,
     effort |-> effort]

\* a call of a summation backend with `args` that ends as `outcome` says
Backend(args, outcome) ==
    IF outcome = "ok"
    THEN Value(<<Factor("fund", args.start, QAdd(args.start, args.pt),
                        args.jet_order, args.eps)>>)
    ELSE Raise(outcome)

\* a backend call as the call log keeps it: what was called, with what, and
\* how the call ended
Invocation(name, args, outcome) ==
    [backend |-> name, args |-> args, outcome |-> outcome]

\* regular_step_transition_matrix; nv and bs are the outcomes of the calls of
\* the two backends, should they be made.  Returns the result, the backend
\* whose result it is and the backend calls made, in order.
regular_step_transition_matrix(dop, step, eps, rows, fail_fast, effort, c, terms_est, nv, bs) ==
    LET args == BackendArgs(step, eps, rows, fail_fast, effort)
        naive == [res |-> Backend(args, nv), by |-> "naive"]
        binsplit == [res |-> Backend(args, bs), by |-> "binsplit"]
        N == Invocation("naive", args, nv)
        B == Invocation("binsplit", args, bs)
        Ret(r, calls) == [res |-> r.res, by |-> r.by, invoked |-> calls]
    IN  IF force_binsplit(c)
        THEN Ret(binsplit, <<B>>)
        ELSE IF prefer_binsplit(c) \/ use_binsplit(dop, step, terms_est)
        THEN IF bs = "NotImplementedError"
             THEN Ret(naive, <<B, N>>)
             ELSE Ret(binsplit, <<B>>)
        ELSE IF force_naive(c) \/ fail_fast
        THEN Ret(naive, <<N>>)
        ELSE IF nv = "PrecisionError"
             THEN IF bs = "NotImplementedError"
                  THEN Ret(naive, <<N, B>>)
                  ELSE Ret(binsplit, <<N, B>>)
             ELSE Ret(naive, <<N>>)

(***************************************************************************)
(* State                                                                   *)
(***************************************************************************)
VARIABLES
    ctx,        \* the Context of the computation
    oper,       \* the differential operator dop
    stack,      \* the active calls of step_transition_matrix, innermost last
    outcome,    \* what the outermost call returned or raised
    lastCall,   \* the call of regular_step_transition_matrix of the last step
    lastSplit,  \* the call of Step.split of the last step
    nextId,     \* identity of the next Point object
    vert,       \* Path.subdivide: self.vert
    new,        \* Path.subdivide: the list new
    idx,        \* Path.subdivide: the index i
    ppc,        \* position of the path computation
    pass,       \* number of subdivisions completed
    first,      \* vertices of the first subdivided path
    lastIter,   \* the last iteration of the loop of Path.subdivide
    raised,     \* the exception the path computation raised, if any
    chk,        \* what the checks of the steps of the path vert gave
    lbm,        \* LocalBasisMapper: the decomposition, the loop, self.cols
    liv,        \* LogSeriesInitialValues: the arguments and the outcome
    sm,         \* the summation of a series: the attempt, the term loop
    ac,         \* analytic_continuation: the path, the products, the records
    dw,         \* series_sum_ordinary_doit: the window last of coefficients
    ls,         \* log_series: the recurrence, the initial values, the series
    lv          \* log_series_values: the arguments and the vectors returned

vars == <<ctx, oper, stack, outcome, lastCall, lastSplit, nextId,
          vert, new, idx, ppc, pass, first, lastIter, raised, chk, lbm, liv, sm,
          ac, dw, ls, lv>>

stmVars == <<ctx, oper, stack, outcome, lastCall, lastSplit>>
pathVars == <<vert, new, idx, ppc, pass, first, lastIter, raised>>
moreVars == <<ac, dw, ls, lv>>
auxVars == <<chk, lbm, liv, sm, moreVars>>

NoPoint == Point(0, <<0, 1>>, TRUE)
NoStep == Step(NoPoint, NoPoint, "None", "None", 0)
NoResult == [kind |-> "none", mat |-> <<>>, exn |-> "none"]
NoCall == [res |-> NoResult, by |-> "none", invoked |-> <<>>,
           use_binsplit |-> FALSE, step |-> NoStep, depth |-> 0]
NoSplit == [step |-> NoStep, sub |-> <<>>]
NoIter == [cur |-> NoPoint, next |-> NoPoint, inserted |-> FALSE,
           interm |-> NoPoint]
NoChk == [done |-> FALSE]
NoLbm == [pc |-> "idle"]
NoLiv == [done |-> FALSE]
NoSm == [pc |-> "idle"]
NoAc == [pc |-> "idle"]
NoDw == [pc |-> "idle"]
NoLs == [pc |-> "idle"]
NoLv == [pc |-> "idle"]
NoTail == [n |-> -1, heur |-> "none", bound |-> 0, reached |-> "none"]

(***************************************************************************)
(* step_transition_matrix.  A frame is one active call:                    *)
(*   arg      the step the call was made with                              *)
(*   step     the local variable step (arg, or arg reversed)               *)
(*   eps, rows, split   the parameters, eps after eps /= 2                 *)
(*   inverse  the local variable inverse                                   *)
(*   pc       "start", "wait0" (computing m0), "wait1" (computing m1),     *)
(*            "ret" (finished, res is the result)                          *)
(*   sub      the sub-steps (s0, s1) returned by step.split()              *)
(*   m0, m1, mat   the local variables of these names                      *)
(***************************************************************************)
NewFrame(step, eps, rows, depth) ==
    [arg |-> step, step |-> step, eps |-> eps, rows |-> rows, split |-> depth,
     inverse |-> FALSE, pc |-> "start", sub |-> <<>>,
     m0 |-> <<>>, m1 |-> <<>>, mat |-> <<>>, res |-> NoResult]

\* variant of halve_eps that leaves the tolerance as it is
halve_eps_not(eps) == eps

\* line 73: eps /= 2
halve_eps(eps) == eps + 1

\* lines 48-75: the classification of the step.  Returns the frame at the
\* try statement (pc "start") or finished (pc "ret").
classify(f, dop) ==
    LET z0 == f.arg.start
        z1 == f.arg.end
    IN  IF dop.order = 0
        THEN [f EXCEPT !.pc = "ret",
                       !.res = Value(<<Factor("empty", z0.value, z1.value, 0, 0)>>)]
        ELSE IF z0.value = z1.value /\ z0.exact /\ z1.exact
        THEN [f EXCEPT !.pc = "ret",
                       !.res = Value(<<Factor("identity", z0.value, z1.value, f.rows, 0)>>)]
        ELSE IF is_ordinary(z0, dop) /\ is_ordinary(z1, dop)
        THEN IF z0.exact
             THEN f
             ELSE [f EXCEPT !.step = Step(z1, z0, "None", "None", 0),
                            !.inverse = TRUE]
        ELSE IF is_regular(z0, dop) /\ is_ordinary(z1, dop)
        THEN f
        ELSE IF is_ordinary(z0, dop) /\ is_regular(z1, dop)
        THEN [f EXCEPT !.step = Step(z1, z0, "None", "None", -1),
                       !.inverse = TRUE, !.eps = halve_eps(f.eps)]
        ELSE [f EXCEPT !.pc = "ret", !.res = Raise("ValueError")]

\* lines 87-89: if inverse: mat = ~mat; return mat
finish(f, mat) ==
    [f EXCEPT !.pc = "ret", !.mat = mat,
              !.res = Value(IF f.inverse THEN MatInverse(mat) ELSE mat)]

\* line 80: the except clause goes on to split unless step.max_split == 0
may_split(step) == step.max_split # 0

\* line 79: except (accuracy.PrecisionError, bounds.BoundPrecisionError)
caught(exn) == exn \in PrecisionErrors

Top == stack[Len(stack)]
Pop == SubSeq(stack, 1, Len(stack) - 1)

\* a caller invokes step_transition_matrix(dop, step, eps, rows, ctx=ctx)
Call(step, rows) ==
    /\ stack = <<>>
    /\ outcome = NoResult
    /\ stack' = <<NewFrame(step, 0, rows, 0)>>
    /\ UNCHANGED <<ctx, oper, outcome, lastCall, lastSplit, nextId>>
    /\ UNCHANGED <<pathVars, auxVars>>

\* the body of the innermost call, from its start to its return or to its
\* first recursive call
Enter(terms_est, nv, bs) ==
    /\ stack # <<>>
    /\ Top.pc = "start"
    /\ LET f == classify(Top, oper)
       IN  IF f.pc = "ret"
           THEN /\ stack' = Pop \o <<f>>
                /\ lastCall' = NoCall
                /\ lastSplit' = NoSplit
                /\ UNCHANGED nextId
           ELSE LET fail_fast == f.step.max_split > 0
                    call == regular_step_transition_matrix(oper, f.step, f.eps,
                                f.rows, fail_fast, f.split, ctx, terms_est, nv, bs)
                    sp == split(f.step, oper, nextId + 1)
                IN  /\ lastCall' = [res |-> call.res, by |-> call.by,
                                    invoked |-> call.invoked,
                                    use_binsplit |-> use_binsplit(oper, f.step, terms_est),
                                    step |-> f.step, depth |-> Len(stack)]
                    /\ IF call.res.kind = "value"
                       THEN /\ stack' = Pop \o <<finish(f, call.res.mat)>>
                            /\ lastSplit' = NoSplit
                            /\ UNCHANGED nextId
                       ELSE IF ~caught(call.res.exn)
                       THEN /\ stack' = Pop \o <<[f EXCEPT !.pc = "ret", !.res = call.res]>>
                            /\ lastSplit' = NoSplit
                            /\ UNCHANGED nextId
                       ELSE IF ~may_split(f.step)
                       THEN /\ stack' = Pop \o <<[f EXCEPT !.pc = "ret", !.res = call.res]>>
                            /\ lastSplit' = NoSplit
                            /\ UNCHANGED nextId
                       ELSE IF sp.exn # "none"
                       THEN /\ stack' = Pop \o <<[f EXCEPT !.pc = "ret", !.res = Raise(sp.exn)]>>
                            /\ lastSplit' = NoSplit
                            /\ UNCHANGED nextId
                       ELSE /\ stack' = Pop \o
                                <<[f EXCEPT !.pc = "wait0", !.sub = sp.sub],
                                  NewFrame(sp.sub[1], f.eps + 2, oper.order, f.split + 1)>>
                            /\ lastSplit' = [step |-> f.step, sub |-> sp.sub]
                            /\ nextId' = nextId + 2
    /\ UNCHANGED <<ctx, oper, outcome>>
    /\ UNCHANGED <<pathVars, auxVars>>

\* a recursive call has finished: the calling frame goes on, to its return
\* or to its second recursive call
Resume ==
    /\ Len(stack) >= 2
    /\ Top.pc = "ret"
    /\ LET child == Top
           f == stack[Len(stack) - 1]
           rest == SubSeq(stack, 1, Len(stack) - 2)
       IN  IF child.res.kind = "raise"
           THEN stack' = rest \o <<[f EXCEPT !.pc = "ret", !.res = child.res]>>
           ELSE IF f.pc = "wait0"
           THEN stack' = rest \o
                    <<[f EXCEPT !.pc = "wait1", !.m0 = child.res.mat],
                      NewFrame(f.sub[2], f.eps + 2, f.rows, f.split + 1)>>
           ELSE stack' = rest \o
                    <<finish([f EXCEPT !.m1 = child.res.mat],
                             MatMul(child.res.mat, f.m0))>>
    /\ lastCall' = NoCall
    /\ lastSplit' = NoSplit
    /\ UNCHANGED <<ctx, oper, outcome, nextId>>
    /\ UNCHANGED <<pathVars, auxVars>>

\* the outermost call returns to its caller
Return ==
    /\ Len(stack) = 1
    /\ Top.pc = "ret"
    /\ outcome' = Top.res
    /\ stack' = <<>>
    /\ lastCall' = NoCall
    /\ lastSplit' = NoSplit
    /\ UNCHANGED <<ctx, oper, nextId>>
    /\ UNCHANGED <<pathVars, auxVars>>

(***************************************************************************)
(* Inputs of step_transition_matrix                                        *)
(***************************************************************************)
Dops == {DopBessel, DopIrregular, DopOrderZero, DopTwoSing}

\* the steps handed to step_transition_matrix: out of the point 0, into it,
\* between ordinary points, of length zero, from a singular point to
\* another; between ordinary points the start may be an inexact ball
ExactEnds == {<<0, 2>>, <<1, 0>>, <<1, 2>>, <<1, 1>>, <<0, 0>>, <<0, 8>>}

Branches == {BranchDefault, "(1,)"}

InputEnds ==
    {<<Point(1, <<z[1], 1>>, TRUE), Point(2, <<z[2], 1>>, TRUE), b>> :
        z \in ExactEnds, b \in Branches}
    \cup {<<Point(1, <<1, 1>>, FALSE), Point(2, <<2, 1>>, TRUE), BranchDefault>>}

\* no step passes through a singular point
InputSteps(dop) ==
    {st \in {Step(z[1], z[2], "None", z[3], m) : z \in InputEnds, m \in 0..MaxBudget} :
        singularities(st, dop) = {}}

InputRows(dop) == {dop.order} \cup {r \in {1} : r <= dop.order}

\* dctx = Context(): the default context
dctx == [algorithm |-> "None", force_algorithm |-> FALSE]

Init ==
    /\ ctx = dctx
    /\ oper \in Dops
    /\ stack = <<>>
    /\ outcome = NoResult
    /\ lastCall = NoCall
    /\ lastSplit = NoSplit
    /\ nextId = 3
    /\ vert = <<>>
    /\ new = <<>>
    /\ idx = 0
    /\ ppc = "idle"
    /\ pass = 0
    /\ first = <<>>
    /\ lastIter = NoIter
    /\ raised = "none"
    /\ chk = NoChk
    /\ lbm = NoLbm
    /\ liv = NoLiv
    /\ sm = NoSm
    /\ ac = NoAc
    /\ dw = NoDw
    /\ ls = NoLs
    /\ lv = NoLv

Next ==
    \/ /\ stack = <<>>
       /\ \E step \in InputSteps(oper), rows \in InputRows(oper) : Call(step, rows)
    \/ /\ stack # <<>>
       /\ \E t \in TermsEstimates, nv \in NaiveOutcomes, bs \in BinsplitOutcomes :
            Enter(t, nv, bs)
    \/ Resume
    \/ Return

Spec == Init /\ [][Next]_vars

(***************************************************************************)
(* regular_step_transition_matrix on its own: every context, every step    *)
(* that step_transition_matrix may hand to it                              *)
(***************************************************************************)
\* the steps that reach the try statement: out of a regular point into an
\* ordinary one
RegularSteps(dop) ==
    {st \in InputSteps(dop) :
        /\ st.start.value # st.end.value
        /\ is_regular(st.start, dop) /\ is_ordinary(st.end, dop)}

InitRegular ==
    /\ ctx \in Contexts
    /\ oper \in {DopBessel, DopTwoSing}
    /\ stack = <<>>
    /\ outcome = NoResult
    /\ lastCall = NoCall
    /\ lastSplit = NoSplit
    /\ nextId = 3
    /\ vert = <<>>
    /\ new = <<>>
    /\ idx = 0
    /\ ppc = "idle"
    /\ pass = 0
    /\ first = <<>>
    /\ lastIter = NoIter
    /\ raised = "none"
    /\ chk = NoChk
    /\ lbm = NoLbm
    /\ liv = NoLiv
    /\ sm = NoSm
    /\ ac = NoAc
    /\ dw = NoDw
    /\ ls = NoLs
    /\ lv = NoLv

\* a call regular_step_transition_matrix(dop, step, eps, rows, fail_fast, effort, ctx)
Regular(step, rows, fail_fast, effort, terms_est, nv, bs) ==
    /\ lastCall = NoCall
    /\ LET call == regular_step_transition_matrix(oper, step, 0, rows, fail_fast,
                        effort, ctx, terms_est, nv, bs)
       IN  lastCall' = [res |-> call.res, by |-> call.by, invoked |-> call.invoked,
                        use_binsplit |-> use_binsplit(oper, step, terms_est),
                        step |-> step, depth |-> 0]
    /\ UNCHANGED <<ctx, oper, stack, outcome, lastSplit, nextId>>
    /\ UNCHANGED <<pathVars, auxVars>>

NextRegular ==
    /\ lastCall = NoCall
    /\ \E step \in RegularSteps(oper), rows \in InputRows(oper),
       fail_fast \in BOOLEAN, effort \in 0..1,
       t \in TermsEstimates, nv \in NaiveOutcomes, bs \in BinsplitOutcomes :
        Regular(step, rows, fail_fast, effort, t, nv, bs)

SpecRegular == InitRegular /\ [][NextRegular]_vars

(***************************************************************************)
(* Step.split on its own: every step with a budget, singular ends included *)
(***************************************************************************)
SplitValues == 0..4

InitSplit ==
    /\ ctx = dctx
    /\ oper \in {DopBessel, DopTwoSing}
    /\ stack = <<>>
    /\ outcome = NoResult
    /\ lastCall = NoCall
    /\ lastSplit = NoSplit
    /\ nextId = 3
    /\ vert = <<>>
    /\ new = <<>>
    /\ idx = 0
    /\ ppc = "idle"
    /\ pass = 0
    /\ first = <<>>
    /\ lastIter = NoIter
    /\ raised = "none"
    /\ chk = NoChk
    /\ lbm = NoLbm
    /\ liv = NoLiv
    /\ sm = NoSm
    /\ ac = NoAc
    /\ dw = NoDw
    /\ ls = NoLs
    /\ lv = NoLv

\* a call step.split() that returns
SplitStep(step) ==
    /\ lastSplit = NoSplit
    /\ LET sp == split(step, oper, nextId + 1)
       IN  /\ sp.exn = "none"
           /\ lastSplit' = [step |-> step, sub |-> sp.sub]
    /\ nextId' = nextId + 2
    /\ UNCHANGED <<ctx, oper, stack, outcome, lastCall>>
    /\ UNCHANGED <<pathVars, auxVars>>

NextSplit ==
    /\ lastSplit = NoSplit
    /\ \E a \in SplitValues, b \in SplitValues, br \in Branches, m \in 1..(MaxBudget + 1) :
        SplitStep(Step(Point(1, <<a, 1>>, TRUE), Point(2, <<b, 1>>, TRUE), "None", br, m))

SpecSplit == InitSplit /\ [][NextSplit]_vars

(***************************************************************************)
(* Properties of step_transition_matrix                                    *)
(***************************************************************************)
Frames == {stack[i] : i \in 1..Len(stack)}

\* mat is a product of backend matrices that goes from the start of step to
\* its end: the rightmost factor starts at step.start, every factor starts
\* where the factor on its right ends, the leftmost ends at step.end
Chain(mat, step) ==
    /\ Len(mat) >= 1
    /\ mat[Len(mat)].a = step.start.value
    /\ mat[1].b = step.end.value
    /\ \A i \in 1..Len(mat) : mat[i].kind = "fund" /\ ~mat[i].inv
    /\ \A i \in 1..(Len(mat) - 1) : mat[i].a = mat[i + 1].b

\* C2: the step handed to the summation backend is split exactly when the
\* backend fails with PrecisionError or BoundPrecisionError and the step has
\* max_split > 0; the sub-steps s0, s1 are consecutive, each is computed by a
\* recursive call, and the matrix of the step is m1*m0 (returned inverted
\* when the step is the reverse of the step asked for)
Thm_C2 ==
    /\ lastSplit # NoSplit =>
        /\ lastCall.res.kind = "raise"
        /\ lastCall.res.exn \in {"PrecisionError", "BoundPrecisionError"}
        /\ lastCall.step = lastSplit.step
        /\ lastSplit.step.max_split > 0
        /\ lastSplit.sub[1].start = lastSplit.step.start
        /\ lastSplit.sub[1].end = lastSplit.sub[2].start
        /\ lastSplit.sub[2].end = lastSplit.step.end
        /\ Len(stack) >= 2
        /\ stack[Len(stack) - 1].sub = lastSplit.sub
    /\ ( /\ lastCall # NoCall
         /\ lastCall.res.exn \in {"PrecisionError", "BoundPrecisionError"}
         /\ lastCall.step.max_split > 0 ) => lastSplit # NoSplit
    /\ \A i \in 1..(Len(stack) - 1) :
        /\ stack[i].pc \in {"wait0", "wait1"}
        /\ stack[i + 1].arg = stack[i].sub[IF stack[i].pc = "wait0" THEN 1 ELSE 2]
        /\ stack[i + 1].split = stack[i].split + 1
    /\ \A f \in Frames :
        /\ f.pc = "wait1" => Chain(f.m0, f.sub[1])
        /\ (f.pc = "ret" /\ f.sub # <<>> /\ f.res.kind = "value") =>
            /\ Chain(f.m0, f.sub[1])
            /\ Chain(f.m1, f.sub[2])
            /\ f.mat = f.m1 \o f.m0
            /\ f.res.mat = IF f.inverse THEN MatInverse(f.mat) ELSE f.mat

\* a call that split its step has formed the product of the two matrices
Witness_C2 ==
    \E f \in Frames : f.pc = "ret" /\ f.sub # <<>> /\ f.res.kind = "value"

\* C3: the depth of recursive splitting never exceeds the max_split of the
\* step step_transition_matrix was called with
CE_C3 ==
    \A i \in 1..Len(stack) : stack[i].split <= stack[1].arg.max_split

\* C4: a step whose max_split is 0 is never split, whatever its
\* classification: a precision failure of the backend is re-raised
CE_C4 ==
    \A f \in Frames : f.arg.max_split = 0 => f.pc \notin {"wait0", "wait1"}

(***************************************************************************)
(* Properties of Step.split                                                *)
(***************************************************************************)
\* the sub-steps go start -> mid -> end through one Point object
SubstepsShareMid(sp) ==
    /\ sp.sub[1].start = sp.step.start
    /\ sp.sub[2].end = sp.step.end
    /\ sp.sub[1].end = sp.sub[2].start

\* C5 as claimed: every step, singular ends included, is cut at the midpoint
\* of its endpoints
CE_C5 ==
    lastSplit # NoSplit =>
        /\ SubstepsShareMid(lastSplit)
        /\ QMul(<<2, 1>>, lastSplit.sub[1].end.value)
              = QAdd(lastSplit.step.start.value, lastSplit.step.end.value)

\* C5 amended: a step between ordinary points is cut at its midpoint; a step
\* whose start is singular at (start + 2 end)/3, and otherwise a step whose
\* end is singular at (2 start + end)/3; the two sub-steps start -> mid and
\* mid -> end share the same intermediate Point
Thm_C5 ==
    lastSplit # NoSplit =>
        LET a == lastSplit.step.start.value
            b == lastSplit.step.end.value
            mid == lastSplit.sub[1].end.value
        IN  /\ SubstepsShareMid(lastSplit)
            /\ a \in oper.sing => QMul(<<3, 1>>, mid) = QAdd(a, QMul(<<2, 1>>, b))
            /\ (a \notin oper.sing /\ b \in oper.sing) =>
                    QMul(<<3, 1>>, mid) = QAdd(QMul(<<2, 1>>, a), b)
            /\ (a \notin oper.sing /\ b \notin oper.sing) =>
                    QMul(<<2, 1>>, mid) = QAdd(a, b)

\* a step into a singular point has been split
Witness_C5 ==
    /\ lastSplit # NoSplit
    /\ lastSplit.step.start.value \notin oper.sing
    /\ lastSplit.step.end.value \in oper.sing

(***************************************************************************)
(* Properties of regular_step_transition_matrix                            *)
(***************************************************************************)
\* C6: with algorithm='naive' and force_algorithm=True the binary-splitting
\* backend is never invoked
CE_C6 ==
    (ctx.algorithm = "naive" /\ ctx.force_algorithm) =>
        \A i \in 1..Len(lastCall.invoked) : lastCall.invoked[i].backend = "naive"

\* C7: when binary splitting is forced, it alone is invoked and its
\* NotImplementedError is the result of the call; when it is preferred or
\* chosen by the heuristic, it is invoked first and on NotImplementedError
\* direct summation is invoked with the same arguments and its result returned
Thm_C7 ==
    lastCall # NoCall =>
        LET forced == ctx.algorithm = "binsplit" /\ ctx.force_algorithm
            chosen == ctx.algorithm = "binsplit" \/ lastCall.use_binsplit
            calls == lastCall.invoked
        IN  /\ forced =>
                /\ Len(calls) = 1
                /\ calls[1].backend = "binsplit"
                /\ calls[1].outcome = "NotImplementedError"
                        => lastCall.res = Raise("NotImplementedError")
            /\ (~forced /\ chosen) =>
                /\ calls[1].backend = "binsplit"
                /\ calls[1].outcome = "NotImplementedError" =>
                    /\ Len(calls) = 2
                    /\ calls[2].backend = "naive"
                    /\ calls[2].args = calls[1].args
                    /\ lastCall.by = "naive"
                    /\ lastCall.res = Backend(calls[2].args, calls[2].outcome)

\* binary splitting, not forced, raised NotImplementedError and direct
\* summation was called in its place
Witness_C7 ==
    /\ lastCall # NoCall
    /\ ~(ctx.algorithm = "binsplit" /\ ctx.force_algorithm)
    /\ Len(lastCall.invoked) = 2
    /\ lastCall.invoked[1].backend = "binsplit"
    /\ lastCall.invoked[1].outcome = "NotImplementedError"
    /\ lastCall.invoked[2].backend = "naive"

(***************************************************************************)
(* Path.subdivide followed by Path.check_singularity and                   *)
(* Path.check_convergence, as in _process_path.  The path computation is   *)
(* at one of the positions                                                 *)
(*   "start"    before the call of subdivide                               *)
(*   "loop"     at the head of the while loop of subdivide                 *)
(*   "done"     subdivide has returned the path new                        *)
(*   "checked"  the two checks have run on new (raised tells the outcome)  *)
(*   "failed"   subdivide has raised (raised tells the exception)          *)
(***************************************************************************)
\* largest number of points that the model lets subdivide insert before one
\* vertex of its input path
MaxNew == 6

\* variant of threshold: a value above 1
threshold_above_one == <<3, 2>>

\* variant of factor: no move towards the next vertex
factor_zero == <<0, 1>>

\* the defaults threshold=IR(0.6) and factor=IR(0.5) of Path.subdivide
threshold == <<3, 5>>
factor == <<1, 2>>

\* dist_to_next <= threshold*rad in ball arithmetic: IR(0.6) is the double
\* just below 3/5 and <= holds only if it holds for all points of the balls,
\* so the test fails when dist_to_next is 3/5 of rad exactly
within_threshold(dist, rad) == QLt(dist, QMul(threshold, rad))

\* variant of subdivide_accepts that, between two ordinary points, compares
\* with the smaller of the radii at cur and at next
subdivide_accepts_smaller_radius(cur, next, dop) ==
    LET dist_to_next == QAbs(QSub(next.value, cur.value))
    IN  IF is_ordinary(next, dop)
        THEN within_threshold(dist_to_next,
                 IF is_ordinary(cur, dop)
                 THEN QMin(dist_to_sing(cur, dop), dist_to_sing(next, dop))
                 ELSE dist_to_sing(cur, dop))
        ELSE \/ cur.value = next.value
             \/ /\ is_ordinary(cur, dop)
                /\ within_threshold(dist_to_next, dist_to_sing(next, dop))

\* the condition of the if of Path.subdivide: next is appended as is
subdivide_accepts(cur, next, dop) ==
    LET rad == dist_to_sing(cur, dop)
        dist_to_next == QAbs(QSub(next.value, cur.value))
    IN  IF is_ordinary(next, dop)
        THEN within_threshold(dist_to_next, rad)
        ELSE \/ cur.value = next.value
             \/ /\ is_ordinary(cur, dop)
                /\ within_threshold(dist_to_next, dist_to_sing(next, dop))

\* the enclosure interm of the else branch, after add_error(rad/8)
subdivide_interm(cur, next, dop) ==
    LET rad == dist_to_sing(cur, dop)
        dir == QSign(QSub(next.value, cur.value))
        mid == QAdd(cur.value, QMul(QMul(factor, rad), dir))
        err == QDiv(rad, <<8, 1>>)
    IN  <<QSub(mid, err), QAdd(mid, err)>>

\* Step(cur, Point(interm, dop)).check_singularity(), interm the enclosure
\* iv: TRUE iff it raises.  A singular point is looked at when it is not cur
\* and not in iv, and it is reported when (end - start)/(s - start) is not
\* below 1 for some end in iv
interm_check_singularity(cur, iv, dop) ==
    \E s \in dop.sing :
        /\ s # cur.value
        /\ ~(QLe(iv[1], s) /\ QLe(s, iv[2]))
        /\ \/ ~QLt(QDiv(QSub(iv[1], cur.value), QSub(s, cur.value)), <<1, 1>>)
           \/ ~QLt(QDiv(QSub(iv[2], cur.value), QSub(s, cur.value)), <<1, 1>>)

\* Path.__iter__: the steps of the path of vertices v
PathSteps(v) ==
    [i \in 1..(Len(v) - 1) |-> Step(v[i], v[i + 1], "None", "None", -1)]

\* Path.check_singularity: TRUE iff it raises
path_check_singularity(v, dop) ==
    \E i \in 1..(Len(v) - 1) : step_check_singularity(PathSteps(v)[i], dop)

\* Path.check_convergence: TRUE iff it raises
path_check_convergence(v, dop) ==
    \E i \in 1..(Len(v) - 1) : step_check_convergence(PathSteps(v)[i], dop)

\* the values of the vertices of a path
Values(v) == [i \in 1..Len(v) |-> v[i].value]

\* the points inserted since the last vertex of the input path was reached
LegInsertions == Len(new) - (CHOOSE j \in 1..Len(new) : new[j].id = vert[idx].id)

\* new = [self.vert[0]]; i = 1
Subdivide ==
    /\ ppc = "start"
    /\ new' = <<vert[1]>>
    /\ idx' = 1
    /\ ppc' = "loop"
    /\ lastIter' = NoIter
    /\ UNCHANGED <<stmVars, auxVars, nextId, vert, pass, first, raised>>

\* one iteration of the while loop; self.vert[i] of the code is vert[idx + 1]
SubdivideIter ==
    /\ ppc = "loop"
    /\ idx < Len(vert)
    /\ LET cur == new[Len(new)]
           next == vert[idx + 1]
       IN  IF subdivide_accepts(cur, next, oper)
           THEN /\ new' = Append(new, next)
                /\ idx' = idx + 1
                /\ lastIter' = [cur |-> cur, next |-> next, inserted |-> FALSE,
                                interm |-> NoPoint]
                /\ UNCHANGED <<nextId, ppc, raised>>
           ELSE LET iv == subdivide_interm(cur, next, oper)
                    pt == Point(nextId + 1, rationalize_iv(iv[1], iv[2]), TRUE)
                IN  /\ LegInsertions < MaxNew
                    /\ nextId' = nextId + 2
                    /\ idx' = idx
                    /\ IF interm_check_singularity(cur, iv, oper)
                       THEN /\ ppc' = "failed"
                            /\ raised' = "ValueError"
                            /\ lastIter' = NoIter
                            /\ new' = new
                       ELSE /\ new' = Append(new, pt)
                            /\ lastIter' = [cur |-> cur, next |-> next,
                                            inserted |-> TRUE, interm |-> pt]
                            /\ UNCHANGED <<ppc, raised>>
    /\ UNCHANGED <<stmVars, auxVars, vert, pass, first>>

\* the loop is left: new = Path(new, self.dop); return new
SubdivideReturn ==
    /\ ppc = "loop"
    /\ idx >= Len(vert)
    /\ ppc' = "done"
    /\ pass' = pass + 1
    /\ first' = IF pass = 0 THEN new ELSE first
    /\ lastIter' = NoIter
    /\ UNCHANGED <<stmVars, auxVars, nextId, vert, new, idx, raised>>

\* path.check_singularity(); path.check_convergence()
Check ==
    /\ ppc = "done"
    /\ ppc' = "checked"
    /\ raised' = IF path_check_singularity(new, oper) \/ path_check_convergence(new, oper)
                 THEN "ValueError" ELSE "none"
    /\ UNCHANGED <<stmVars, auxVars, nextId, vert, new, idx, pass, first, lastIter>>

\* subdivide is called on the path it has returned
SubdivideAgain ==
    /\ ppc = "checked"
    /\ pass = 1
    /\ vert' = new
    /\ new' = <<new[1]>>
    /\ idx' = 1
    /\ ppc' = "loop"
    /\ UNCHANGED <<stmVars, auxVars, nextId, pass, first, lastIter, raised>>

\* the input paths: 1 to MaxPathLen exact vertices on the real line
PathValues == {<<-1, 1>>, <<0, 1>>, <<1, 1>>, <<3, 1>>, <<7, 1>>, <<8, 1>>}
PathDops == {DopBessel, DopTwoSing}
InputPaths ==
    UNION {[1..n -> PathValues] : n \in 1..MaxPathLen}

InitPath ==
    /\ ctx = dctx
    /\ oper \in PathDops
    /\ stack = <<>>
    /\ outcome = NoResult
    /\ lastCall = NoCall
    /\ lastSplit = NoSplit
    /\ \E vs \in InputPaths :
        /\ vert = [i \in 1..Len(vs) |-> Point(i, vs[i], TRUE)]
        /\ nextId = Len(vs) + 1
    /\ new = <<>>
    /\ idx = 0
    /\ ppc = "start"
    /\ pass = 0
    /\ first = <<>>
    /\ lastIter = NoIter
    /\ raised = "none"
    /\ chk = NoChk
    /\ lbm = NoLbm
    /\ liv = NoLiv
    /\ sm = NoSm
    /\ ac = NoAc
    /\ dw = NoDw
    /\ ls = NoLs
    /\ lv = NoLv

NextPath ==
    \/ Subdivide
    \/ SubdivideIter
    \/ SubdivideReturn
    \/ Check
    \/ SubdivideAgain

SpecPath == InitPath /\ [][NextPath]_vars

(***************************************************************************)
(* Properties of Path.subdivide                                            *)
(***************************************************************************)
\* all the vertices of the path handed to subdivide are ordinary points
OrdinaryVertices == \A i \in 1..Len(vert) : vert[i].value \notin oper.sing

\* C8: on the path subdivide returns for a path of ordinary vertices,
\* check_singularity followed by check_convergence does not raise: every
\* step is shorter than the distance from its start to the singular points
\* and no singular point lies on it
Thm_C8 ==
    (ppc \in {"done", "checked"} /\ OrdinaryVertices) =>
        /\ ppc = "checked" => raised = "none"
        /\ \A i \in 1..(Len(new) - 1) :
            LET a == new[i].value
                b == new[i + 1].value
            IN  \A s \in oper.sing :
                    /\ QLt(QAbs(QSub(b, a)), QAbs(QSub(s, a)))
                    /\ ~(QLe(a, s) /\ QLe(s, b))
                    /\ ~(QLe(b, s) /\ QLe(s, a))

\* a path of ordinary vertices in which subdivide inserted points was checked
Witness_C8 ==
    /\ ppc = "checked"
    /\ pass = 1
    /\ OrdinaryVertices
    /\ Len(new) > Len(vert)

\* C9: subdivide applied to a path that subdivide returned inserts no point
\* and returns the same vertices in the same order
CE_C9 ==
    /\ (pass = 1 /\ ppc = "loop") => ~lastIter.inserted
    /\ (pass = 2 /\ ppc = "done") => Values(new) = Values(first)

\* C10 as claimed: a point is inserted exactly when the distance to the next
\* vertex exceeds threshold times the smaller of the distances to the
\* singularities of the current point and of the next vertex
CE_C10 ==
    lastIter # NoIter =>
        LET dist == QAbs(QSub(lastIter.next.value, lastIter.cur.value))
            smaller == QMin(dist_to_sing(lastIter.cur, oper),
                            dist_to_sing(lastIter.next, oper))
        IN  lastIter.inserted <=> ~QLt(dist, QMul(<<3, 5>>, smaller))

\* C10 amended: the next vertex is taken as is exactly when it is ordinary
\* and its distance to the current point is within threshold times the
\* distance of the current point to the singularities, or it is singular and
\* either has the value of the current point or the current point is ordinary
\* and the distance is within threshold times the distance of the next
\* vertex to the other singularities; otherwise a new point is inserted and
\* the next vertex is looked at again
Thm_C10 ==
    lastIter # NoIter =>
        LET cur == lastIter.cur
            next == lastIter.next
            dist == QAbs(QSub(next.value, cur.value))
            taken ==
                IF next.value \notin oper.sing
                THEN QLt(dist, QMul(<<3, 5>>, dist_to_sing(cur, oper)))
                ELSE \/ cur.value = next.value
                     \/ /\ cur.value \notin oper.sing
                        /\ QLt(dist, QMul(<<3, 5>>, dist_to_sing(next, oper)))
        IN  /\ lastIter.inserted <=> ~taken
            /\ new[Len(new)] = IF lastIter.inserted THEN lastIter.interm ELSE next
            /\ new[Len(new) - 1] = cur
            /\ lastIter.inserted => vert[idx + 1] = next
            /\ ~lastIter.inserted => vert[idx] = next

\* an ordinary vertex nearer to the singularities than the current point was
\* taken as is, from farther than threshold times its own distance to them
Witness_C10 ==
    /\ lastIter # NoIter
    /\ ~lastIter.inserted
    /\ lastIter.next.value \notin oper.sing
    /\ QLt(dist_to_sing(lastIter.next, oper), dist_to_sing(lastIter.cur, oper))
    /\ ~QLt(QAbs(QSub(lastIter.next.value, lastIter.cur.value)),
            QMul(<<3, 5>>, dist_to_sing(lastIter.next, oper)))

(***************************************************************************)
(* The checks of the steps of a path: Step.check_singularity and           *)
(* Step.check_convergence on every step of the path vert, and the two      *)
(* methods of Path that run them.  chk keeps, step by step, the set        *)
(* Step.singularities returns and whether each check raises.               *)
(***************************************************************************)
\* the singular points named by the ValueError of Path.check_singularity:
\* those of the first step whose check raises
path_check_singularity_names(v, dop) ==
    IF path_check_singularity(v, dop)
    THEN LET i == CHOOSE j \in 1..(Len(v) - 1) :
                    /\ step_check_singularity(PathSteps(v)[j], dop)
                    /\ \A k \in 1..(j - 1) : ~step_check_singularity(PathSteps(v)[k], dop)
         IN  singularities(PathSteps(v)[i], dop)
    ELSE {}

\* the two checks run on the path vert
CheckPath ==
    /\ ~chk.done
    /\ vert # <<>>
    /\ chk' = [done |-> TRUE,
               sing |-> [i \in 1..(Len(vert) - 1) |->
                            singularities(PathSteps(vert)[i], oper)],
               singRaises |-> [i \in 1..(Len(vert) - 1) |->
                            step_check_singularity(PathSteps(vert)[i], oper)],
               convRaises |-> [i \in 1..(Len(vert) - 1) |->
                            step_check_convergence(PathSteps(vert)[i], oper)],
               pathSingRaises |-> path_check_singularity(vert, oper),
               pathSingNames |-> path_check_singularity_names(vert, oper),
               pathConvRaises |-> path_check_convergence(vert, oper)]
    /\ UNCHANGED <<stmVars, pathVars, nextId, lbm, liv, sm, moreVars>>

\* the paths checked: 1 to MaxPathLen exact vertices on the real line
CheckValues == {<<-1, 1>>, <<0, 1>>, <<1, 1>>, <<2, 1>>, <<8, 1>>, <<9, 1>>}
CheckDops == {DopBessel, DopTwoSing, DopIrregular}
CheckPaths == UNION {[1..n -> CheckValues] : n \in 1..MaxPathLen}

InitChecks ==
    /\ ctx = dctx
    /\ oper \in CheckDops
    /\ stack = <<>>
    /\ outcome = NoResult
    /\ lastCall = NoCall
    /\ lastSplit = NoSplit
    /\ \E vs \in CheckPaths :
        /\ vert = [i \in 1..Len(vs) |-> Point(i, vs[i], TRUE)]
        /\ nextId = Len(vs) + 1
    /\ new = <<>>
    /\ idx = 0
    /\ ppc = "idle"
    /\ pass = 0
    /\ first = <<>>
    /\ lastIter = NoIter
    /\ raised = "none"
    /\ chk = NoChk
    /\ lbm = NoLbm
    /\ liv = NoLiv
    /\ sm = NoSm
    /\ ac = NoAc
    /\ dw = NoDw
    /\ ls = NoLs
    /\ lv = NoLv

NextChecks == CheckPath

SpecChecks == InitChecks /\ [][NextChecks]_vars

\* C11: Step.check_convergence raises exactly when the length of the step is
\* at least the distance from its reference endpoint to the other singular
\* points, the reference being the end if the end is a regular singular
\* point and the start otherwise; Path.check_convergence raises iff the
\* check of one of its steps does
Thm_C11 ==
    chk.done =>
        /\ \A i \in 1..(Len(vert) - 1) :
            LET a == vert[i].value
                b == vert[i + 1].value
                ref == IF b \in oper.sing /\ b \notin oper.irr THEN b ELSE a
            IN  chk.convRaises[i] <=>
                    \E s \in oper.sing \ {ref} :
                        QLe(QAbs(QSub(s, ref)), QAbs(QSub(b, a)))
        /\ chk.pathConvRaises <=> \E i \in 1..(Len(vert) - 1) : chk.convRaises[i]

\* a step as long as the distance from its start to the singular points was
\* rejected
Witness_C11 ==
    /\ chk.done
    /\ \E i \in 1..(Len(vert) - 1) :
        /\ chk.convRaises[i]
        /\ vert[i + 1].value \notin oper.sing
        /\ \A s \in oper.sing \ {vert[i].value} :
            QLe(QAbs(QSub(vert[i + 1].value, vert[i].value)),
                QAbs(QSub(s, vert[i].value)))

\* C12: Step.check_singularity raises iff a singular point other than the
\* endpoints of the step lies between its start and its end, and
\* Step.singularities gives all of these points; a step between singular
\* points with none between them, a step whose start is its end and a path
\* of one vertex pass; the error of Path.check_singularity names all the
\* singular points on its first offending step
Thm_C12 ==
    chk.done =>
        /\ \A i \in 1..(Len(vert) - 1) :
            LET a == vert[i].value
                b == vert[i + 1].value
                between == {s \in oper.sing \ {a, b} :
                               \/ QLt(a, s) /\ QLt(s, b)
                               \/ QLt(b, s) /\ QLt(s, a)}
            IN  /\ chk.sing[i] = between
                /\ chk.singRaises[i] <=> between # {}
                /\ a = b => ~chk.singRaises[i]
        /\ Len(vert) = 1 => ~chk.pathSingRaises
        /\ chk.pathSingRaises <=> \E i \in 1..(Len(vert) - 1) : chk.singRaises[i]
        /\ chk.pathSingRaises =>
            \E i \in 1..(Len(vert) - 1) :
                /\ chk.singRaises[i]
                /\ \A k \in 1..(i - 1) : ~chk.singRaises[k]
                /\ chk.pathSingNames = chk.sing[i]

\* a step over two singular points was rejected with both of them named
Witness_C12 ==
    /\ chk.done
    /\ chk.pathSingRaises
    /\ Cardinality(chk.pathSingNames) = 2

(***************************************************************************)
(* Local bases (local_solutions.py).  An exponent is a complex number      *)
(* [re, im] with rational parts.  The shiftless decomposition of the       *)
(* indicial polynomial, which the code gets from outside, is a sequence of *)
(* classes [factors, shifts]: factors lists the roots of each irreducible  *)
(* factor of sl_factor, in the order roots() returns them, and shifts is   *)
(* the list of the pairs <<shift, multiplicity>> of the class.             *)
(***************************************************************************)
\* largest order of an operator taken at an ordinary point
MaxOrder == 3
\* largest number of classes of a shiftless decomposition
MaxClasses == 2

Cplx(re, im) == [re |-> re, im |-> im]

\* FundamentalSolution(leftmost, shift, log_power, value); fun() returns None
FundamentalSolution(leftmost, shift, log_power) ==
    [leftmost |-> leftmost, shift |-> shift, log_power |-> log_power,
     value |-> "None"]

\* FundamentalSolution.valuation
valuation(sol) == Cplx(QAdd(sol.leftmost.re, QInt(sol.shift)), sol.leftmost.im)

\* variant of sort_key_by_asympt with the real part negated
sort_key_by_asympt_descending(sol) ==
    <<QNeg(valuation(sol).re), QInt(-sol.log_power),
      QNeg(QAbs(valuation(sol).im)), QSign(valuation(sol).im)>>

\* variant of sort_key_by_asympt without the sign of the imaginary part
sort_key_by_asympt_without_sign(sol) ==
    <<valuation(sol).re, QInt(-sol.log_power),
      QNeg(QAbs(valuation(sol).im)), <<0, 1>>>>

\* sort_key_by_asympt: re, -sol.log_power, -im.abs(), im.sign()
sort_key_by_asympt(sol) ==
    <<valuation(sol).re, QInt(-sol.log_power),
      QNeg(QAbs(valuation(sol).im)), QSign(valuation(sol).im)>>

\* comparison of two keys as Python compares tuples
RECURSIVE KeyLt(_, _)
KeyLt(k1, k2) ==
    IF k1 = <<>> \/ k2 = <<>> THEN k1 = <<>> /\ k2 # <<>>
    ELSE IF QLt(Head(k1), Head(k2)) THEN TRUE
    ELSE IF QLt(Head(k2), Head(k1)) THEN FALSE
    ELSE KeyLt(Tail(k1), Tail(k2))

\* x inserted into the sorted list s after the elements whose key is not
\* above its own
InsertByKey(x, s) ==
    LET n == Cardinality({i \in 1..Len(s) :
                            ~KeyLt(sort_key_by_asympt(x), sort_key_by_asympt(s[i]))})
    IN  SubSeq(s, 1, n) \o <<x>> \o SubSeq(s, n + 1, Len(s))

\* variant of sort_cols that leaves the list as it is
sort_cols_not(cols) == cols

\* self.cols.sort(key=sort_key_by_asympt): a stable sort
RECURSIVE sort_cols(_)
sort_cols(cols) ==
    IF cols = <<>> THEN <<>>
    ELSE InsertByKey(cols[Len(cols)], sort_cols(SubSeq(cols, 1, Len(cols) - 1)))

RECURSIVE Concat(_)
Concat(ss) == IF ss = <<>> THEN <<>> ELSE Head(ss) \o Concat(Tail(ss))

\* reversed(s)
Reversed(s) == [i \in 1..Len(s) |-> s[Len(s) + 1 - i]]

\* variant of process_valuation that stops before log power 0
process_valuation_without_zero(leftmost, shift, mult) ==
    [j \in 1..(mult - 1) |-> FundamentalSolution(leftmost, shift, mult - j)]

\* process_valuation: process_solution for log_power in reversed(range(mult))
process_valuation(leftmost, shift, mult) ==
    [j \in 1..mult |-> FundamentalSolution(leftmost, shift, mult - j)]

\* process_modZ_class: process_valuation for (shift, mult) in reversed(shifts)
process_modZ_class(leftmost, shifts) ==
    Concat([j \in 1..Len(shifts) |->
                process_valuation(leftmost, Reversed(shifts)[j][1],
                                  Reversed(shifts)[j][2])])

\* process_irred_factor: process_modZ_class for leftmost in self.roots
process_irred_factor(roots, shifts) ==
    Concat([j \in 1..Len(roots) |-> process_modZ_class(roots[j], shifts)])

\* lines 379-383: the decomposition run() works with.  At an ordinary point
\* it is [(-n, [(i, 1) for i in range(order)])], whose only root is 0
run_sl_decomp(input) ==
    IF input.kind = "ordinary"
    THEN <<[factors |-> << <<Cplx(<<0, 1>>, <<0, 1>>)>> >>,
            shifts |-> [i \in 1..input.order |-> <<i - 1, 1>>]]>>
    ELSE input.decomp

\* the pairs <<class, factor>> in the order of the loops of lines 389-390
FactorList(decomp) ==
    Concat([c \in 1..Len(decomp) |->
                [f \in 1..Len(decomp[c].factors) |-> <<c, f>>]])

\* LocalBasisMapper(dop).run() is called: lines 377-388
Run ==
    /\ lbm.pc = "start"
    /\ lbm.input.kind # "irregular"
    /\ lbm' = [lbm EXCEPT !.pc = "loop", !.via = "run",
                          !.sl_decomp = run_sl_decomp(lbm.input),
                          !.todo = FactorList(run_sl_decomp(lbm.input)),
                          !.cols = <<>>, !.nontrivial_factor_index = 0]
    /\ UNCHANGED <<stmVars, pathVars, nextId, chk, liv, sm, moreVars>>

\* one iteration of the loop over the irreducible factors: lines 390-401
RunIrredFactor ==
    /\ lbm.pc = "loop"
    /\ lbm.todo # <<>>
    /\ LET cls == lbm.sl_decomp[Head(lbm.todo)[1]]
           roots == cls.factors[Head(lbm.todo)[2]]
           irred_factor_cols == process_irred_factor(roots, cls.shifts)
       IN  lbm' = [lbm EXCEPT !.todo = Tail(lbm.todo),
                              !.emitted = lbm.emitted \o irred_factor_cols,
                              !.cols = lbm.cols \o irred_factor_cols,
                              !.nontrivial_factor_index =
                                  IF Len(roots) >= 2 THEN @ + 1 ELSE @]
    /\ UNCHANGED <<stmVars, pathVars, nextId, chk, liv, sm, moreVars>>

\* lines 402-403: self.cols.sort(key=sort_key_by_asympt); return self.cols
RunReturn ==
    /\ lbm.pc = "loop"
    /\ lbm.todo = <<>>
    /\ lbm' = [lbm EXCEPT !.pc = "done", !.cols = sort_cols(lbm.cols),
                          !.res = Value(sort_cols(lbm.cols))]
    /\ UNCHANGED <<stmVars, pathVars, nextId, chk, liv, sm, moreVars>>

\* Point.local_basis_structure: lines 430-435
local_basis_structure ==
    /\ lbm.pc = "start"
    /\ IF lbm.input.kind = "ordinary"
       THEN lbm' = [lbm EXCEPT !.pc = "done", !.via = "point",
                        !.res = Value([i \in 1..lbm.input.order |->
                            FundamentalSolution(Cplx(<<0, 1>>, <<0, 1>>), i - 1, 0)])]
       ELSE IF lbm.input.kind = "irregular"
       THEN lbm' = [lbm EXCEPT !.pc = "done", !.via = "point",
                        !.res = Raise("NotImplementedError")]
       ELSE lbm' = [lbm EXCEPT !.pc = "loop", !.via = "point",
                        !.sl_decomp = run_sl_decomp(lbm.input),
                        !.todo = FactorList(run_sl_decomp(lbm.input)),
                        !.cols = <<>>, !.nontrivial_factor_index = 0]
    /\ UNCHANGED <<stmVars, pathVars, nextId, chk, liv, sm, moreVars>>

\* the classes of the decompositions tried
Zero == <<0, 1>>
Classes ==
    LET ClassesA ==
            {[name |-> "A", factors |-> << <<Cplx(Zero, Zero)>> >>, shifts |-> sh] :
                sh \in {<< <<0, 1>> >>, << <<0, 2>> >>, << <<0, 1>>, <<1, 1>> >>,
                        << <<0, 1>>, <<2, 2>> >>}}
        ClassesB ==
            {[name |-> "B", factors |-> << <<Cplx(<<1, 2>>, Zero)>> >>,
              shifts |-> << <<0, 1>> >>]}
        ClassesC ==
            {[name |-> "C", factors |-> <<rts>>, shifts |-> sh] :
                rts \in {<<Cplx(Zero, <<1, 1>>), Cplx(Zero, <<-1, 1>>)>>,
                         <<Cplx(Zero, <<-1, 1>>), Cplx(Zero, <<1, 1>>)>>},
                sh \in {<< <<0, 1>> >>, << <<0, 2>> >>}}
        ClassesD ==
            {[name |-> "D", factors |-> <<rts>>, shifts |-> << <<0, 1>> >>] :
                rts \in {<<Cplx(Zero, <<2, 1>>), Cplx(Zero, <<-2, 1>>)>>,
                         <<Cplx(Zero, <<-2, 1>>), Cplx(Zero, <<2, 1>>)>>}}
        ClassesE ==
            {[name |-> "E", factors |-> << <<Cplx(<<1, 3>>, Zero)>>, <<Cplx(<<-1, 3>>, Zero)>> >>,
              shifts |-> << <<0, 1>>, <<1, 1>> >>]}
    IN  ClassesA \cup ClassesB \cup ClassesC \cup ClassesD \cup ClassesE

\* the decompositions: 1 to MaxClasses classes, no two with a common root
Decomps ==
    UNION {{d \in [1..n -> Classes] :
                \A i, j \in 1..n : i # j => d[i].name # d[j].name} :
           n \in 1..MaxClasses}

LbmInputs ==
    {[kind |-> "ordinary", order |-> r, decomp |-> <<>>] : r \in 1..MaxOrder}
    \cup {[kind |-> "irregular", order |-> 1, decomp |-> <<>>]}
    \cup {[kind |-> "regular", order |-> 0, decomp |-> d] : d \in Decomps}

InitLbm ==
    /\ ctx = dctx
    /\ oper = DopBessel
    /\ stack = <<>>
    /\ outcome = NoResult
    /\ lastCall = NoCall
    /\ lastSplit = NoSplit
    /\ nextId = 1
    /\ vert = <<>>
    /\ new = <<>>
    /\ idx = 0
    /\ ppc = "idle"
    /\ pass = 0
    /\ first = <<>>
    /\ lastIter = NoIter
    /\ raised = "none"
    /\ chk = NoChk
    /\ \E input \in LbmInputs :
        lbm = [pc |-> "start", input |-> input, via |-> "none", sl_decomp |-> <<>>,
               todo |-> <<>>, emitted |-> <<>>, cols |-> <<>>,
               nontrivial_factor_index |-> 0, res |-> NoResult]
    /\ liv = NoLiv
    /\ sm = NoSm
    /\ ac = NoAc
    /\ dw = NoDw
    /\ ls = NoLs
    /\ lv = NoLv

NextLbm ==
    \/ Run
    \/ RunIrredFactor
    \/ RunReturn
    \/ local_basis_structure

SpecLbm == InitLbm /\ [][NextLbm]_vars

(***************************************************************************)
(* Properties of the local basis structure                                  *)
(***************************************************************************)
LbmReturned == lbm.pc = "done" /\ lbm.res.kind = "value"

\* C13: at an ordinary point of an operator of order r, the local basis
\* structure, computed by Point.local_basis_structure() or by
\* LocalBasisMapper.run(), has exactly r entries, all of leftmost exponent 0
\* and log power 0, with the shifts 0, 1, ..., r-1 in this order.
Thm_C13 ==
    (lbm.pc = "done" /\ lbm.input.kind = "ordinary") =>
        /\ lbm.res.kind = "value"
        /\ Len(lbm.res.mat) = lbm.input.order
        /\ \A i \in 1..Len(lbm.res.mat) :
            /\ lbm.res.mat[i].leftmost = Cplx(<<0, 1>>, <<0, 1>>)
            /\ lbm.res.mat[i].shift = i - 1
            /\ lbm.res.mat[i].log_power = 0

Witness_C13 ==
    /\ lbm.pc = "done"
    /\ lbm.input.kind = "ordinary"
    /\ lbm.input.order = MaxOrder
    /\ lbm.via = "run"
    /\ lbm.emitted # lbm.res.mat

\* the triples <<root, shift, log power>> of a decomposition
TriplesOf(decomp) ==
    UNION {UNION {UNION {UNION {
        {<<decomp[c].factors[f][r], decomp[c].shifts[s][1], k>> :
            k \in 0..(decomp[c].shifts[s][2] - 1)} :
        s \in 1..Len(decomp[c].shifts)} :
        r \in 1..Len(decomp[c].factors[f])} :
        f \in 1..Len(decomp[c].factors)} :
        c \in 1..Len(decomp)}

\* the indicial polynomial of x*D^2 + D at the origin is n^2
DecompXD2 == <<[name |-> "A", factors |-> << <<Cplx(<<0, 1>>, <<0, 1>>)>> >>,
                shifts |-> << <<0, 2>> >>]>>

\* C14: LocalBasisMapper.run() returns exactly one FundamentalSolution for
\* each triple (root of the indicial polynomial, shift, log power below the
\* multiplicity), each once; for x*D^2 + D at the origin these are two
\* solutions of valuation 0, of log powers 1 and 0.
Thm_C14 ==
    (LbmReturned /\ lbm.sl_decomp # <<>>) =>
        /\ Len(lbm.res.mat) = Cardinality(TriplesOf(lbm.sl_decomp))
        /\ {<<lbm.res.mat[i].leftmost, lbm.res.mat[i].shift, lbm.res.mat[i].log_power>> :
                i \in 1..Len(lbm.res.mat)} = TriplesOf(lbm.sl_decomp)
        /\ lbm.input.decomp = DecompXD2 =>
            lbm.res.mat = <<FundamentalSolution(Cplx(<<0, 1>>, <<0, 1>>), 0, 1),
                            FundamentalSolution(Cplx(<<0, 1>>, <<0, 1>>), 0, 0)>>

Witness_C14 ==
    /\ LbmReturned
    /\ lbm.input.decomp = DecompXD2
    /\ Len(lbm.res.mat) = 2

\* C15 as stated: the result is sorted by the real part of the valuation in
\* descending order.
CE_C15 ==
    LbmReturned =>
        \A i, j \in 1..Len(lbm.res.mat) :
            i < j => QLe(valuation(lbm.res.mat[j]).re, valuation(lbm.res.mat[i]).re)

\* C15, amended: the result is sorted primarily by the real part of the
\* valuation in ascending order, the solutions of smallest real part first.
Thm_C15 ==
    LbmReturned =>
        \A i, j \in 1..Len(lbm.res.mat) :
            i < j => QLe(valuation(lbm.res.mat[i]).re, valuation(lbm.res.mat[j]).re)

Witness_C15 ==
    /\ LbmReturned
    /\ lbm.input.kind = "regular"
    /\ lbm.emitted # lbm.res.mat
    /\ \E i, j \in 1..Len(lbm.res.mat) :
        QLt(valuation(lbm.res.mat[i]).re, valuation(lbm.res.mat[j]).re)

\* C16: among solutions of the same real part of the valuation, the higher
\* log power comes first; then the larger absolute value of the imaginary
\* part; then the negative imaginary part before the positive one.  No two
\* solutions compare equal, so the order does not depend on the order in
\* which they were emitted.
Thm_C16 ==
    LbmReturned =>
        \A i, j \in 1..Len(lbm.res.mat) :
            (i < j /\ valuation(lbm.res.mat[i]).re = valuation(lbm.res.mat[j]).re) =>
                LET a == lbm.res.mat[i]
                    b == lbm.res.mat[j]
                    ia == valuation(a).im
                    ib == valuation(b).im
                IN  \/ a.log_power > b.log_power
                    \/ /\ a.log_power = b.log_power
                       /\ \/ QLt(QAbs(ib), QAbs(ia))
                          \/ /\ QAbs(ia) = QAbs(ib)
                             /\ QLt(ia, Zero) /\ QLt(Zero, ib)

Witness_C16 ==
    /\ LbmReturned
    /\ lbm.emitted # lbm.res.mat
    /\ \E i, j \in 1..Len(lbm.res.mat) :
        /\ i < j
        /\ valuation(lbm.res.mat[i]).re = valuation(lbm.res.mat[j]).re
        /\ lbm.res.mat[i].log_power = lbm.res.mat[j].log_power
        /\ valuation(lbm.res.mat[i]).im = QNeg(valuation(lbm.res.mat[j]).im)
    /\ \E i, j \in 1..Len(lbm.res.mat) :
        /\ valuation(lbm.res.mat[i]).re = valuation(lbm.res.mat[j]).re
        /\ lbm.res.mat[i].log_power > lbm.res.mat[j].log_power
    /\ \E i, j \in 1..Len(lbm.res.mat) :
        /\ valuation(lbm.res.mat[i]).re = valuation(lbm.res.mat[j]).re
        /\ lbm.res.mat[i].log_power = lbm.res.mat[j].log_power
        /\ QLt(QAbs(valuation(lbm.res.mat[j]).im), QAbs(valuation(lbm.res.mat[i]).im))

(***************************************************************************)
(* LogSeriesInitialValues (local_solutions.py 193-265).  The data are a    *)
(* dictionary from shifts to tuples of values; only the keys and the       *)
(* lengths of the tuples matter to the validity test.                      *)
(***************************************************************************)
\* largest key of the dictionary of initial values
MaxKey == 2
\* largest length of a tuple of initial values
MaxTuple == 2

\* expo is in QQ (line 216 succeeds)
IsRational(expo) == expo.im = Zero

\* sl_factor(self.expo - val_shift).is_zero(), line 258
IsRootShifted(cls, expo, val_shift) ==
    \E f \in 1..Len(cls.factors) : \E r \in 1..Len(cls.factors[f]) :
        cls.factors[f][r] = Cplx(QSub(expo.re, QInt(val_shift)), expo.im)

\* lines 259-263, once line 258 has found the position k of the class
ValidFrom(shifts, k, data) ==
    /\ Cardinality(DOMAIN data) = Len(shifts) - (k - 1)
    /\ \A j \in k..Len(shifts) :
        LET key == shifts[j][1] - shifts[k][1]
        IN  (IF key \in DOMAIN data THEN Len(data[key]) ELSE 0) = shifts[j][2]

\* the pairs <<class, position in shifts>> in the order of the loops of
\* lines 256-257
PositionList(decomp) ==
    Concat([c \in 1..Len(decomp) |->
                [k \in 1..Len(decomp[c].shifts) |-> <<c, k>>]])

RECURSIVE ValidAmong(_, _, _, _)
ValidAmong(decomp, todo, expo, data) ==
    IF todo = <<>> THEN FALSE
    ELSE LET cls == decomp[Head(todo)[1]]
             k == Head(todo)[2]
         IN  IF IsRootShifted(cls, expo, cls.shifts[k][1])
             THEN ValidFrom(cls.shifts, k, data)
             ELSE ValidAmong(decomp, Tail(todo), expo, data)

\* LogSeriesInitialValues.is_valid_for: "True", "False", or "TypeError" when
\* the exponent, not rational, does not coerce into the field of the
\* coefficients of sl_factor in the evaluation of line 258
is_valid_for(decomp, expo, data, coercible) ==
    IF PositionList(decomp) # <<>> /\ ~IsRational(expo) /\ ~coercible
    THEN "TypeError"
    ELSE IF ValidAmong(decomp, PositionList(decomp), expo, data) THEN "True"
    ELSE "False"

\* LogSeriesInitialValues.__init__
LogSeriesInitialValues ==
    /\ liv.pc = "start"
    /\ LET input == liv.input
       IN  liv' = [liv EXCEPT !.pc = "done", !.res =
                IF ~input.numeric
                THEN Raise("ValueError: initial values must coerce into a ball field")
                ELSE IF input.check /\ input.dop
                        /\ is_valid_for(input.decomp, input.expo, input.data,
                                        input.coercible) = "False"
                THEN Raise("ValueError: invalid initial data")
                ELSE Value([expo |-> input.expo, shift |-> input.data])]
    /\ UNCHANGED <<stmVars, pathVars, nextId, chk, lbm, sm, moreVars>>

LivDecomps == {d \in Decomps : Len(d) = 1}

LivExpos ==
    {Cplx(Zero, Zero), Cplx(<<1, 1>>, Zero), Cplx(<<2, 1>>, Zero),
     Cplx(<<1, 2>>, Zero), Cplx(Zero, <<1, 1>>), Cplx(<<1, 1>>, <<-1, 1>>)}

\* the dictionaries: at least one key among 0..MaxKey, tuples of 0 to
\* MaxTuple values
LivData ==
    UNION {[keys -> {[i \in 1..n |-> 1] : n \in 0..MaxTuple}] :
           keys \in (SUBSET (0..MaxKey)) \ {{}}}

\* the ways of calling the constructor
LivModes ==
    {[check |-> TRUE, dop |-> TRUE, coercible |-> TRUE, numeric |-> TRUE],
     [check |-> TRUE, dop |-> TRUE, coercible |-> FALSE, numeric |-> TRUE],
     [check |-> FALSE, dop |-> TRUE, coercible |-> TRUE, numeric |-> TRUE],
     [check |-> TRUE, dop |-> FALSE, coercible |-> TRUE, numeric |-> TRUE],
     [check |-> TRUE, dop |-> TRUE, coercible |-> TRUE, numeric |-> FALSE]}

InitLiv ==
    /\ ctx = dctx
    /\ oper = DopBessel
    /\ stack = <<>>
    /\ outcome = NoResult
    /\ lastCall = NoCall
    /\ lastSplit = NoSplit
    /\ nextId = 1
    /\ vert = <<>>
    /\ new = <<>>
    /\ idx = 0
    /\ ppc = "idle"
    /\ pass = 0
    /\ first = <<>>
    /\ lastIter = NoIter
    /\ raised = "none"
    /\ chk = NoChk
    /\ lbm = NoLbm
    /\ \E d \in LivDecomps, e \in LivExpos, data \in LivData, m \in LivModes :
        liv = [pc |-> "start",
               input |-> [decomp |-> d, expo |-> e, data |-> data,
                          check |-> m.check, dop |-> m.dop,
                          coercible |-> m.coercible, numeric |-> m.numeric],
               res |-> NoResult]
    /\ sm = NoSm
    /\ ac = NoAc
    /\ dw = NoDw
    /\ ls = NoLs
    /\ lv = NoLv

NextLiv == LogSeriesInitialValues

SpecLiv == InitLiv /\ [][NextLiv]_vars

\* the data match the indicial structure: the exponent is a root of a class
\* moved by one of its shifts, the keys are exactly the shifts of the class
\* from this one on, and each tuple has the length of the multiplicity
MatchesIndicialStructure(decomp, expo, data) ==
    \E c \in 1..Len(decomp) : \E k \in 1..Len(decomp[c].shifts) :
        LET shifts == decomp[c].shifts
        IN  /\ \E f \in 1..Len(decomp[c].factors) :
                \E r \in 1..Len(decomp[c].factors[f]) :
                    /\ decomp[c].factors[f][r].im = expo.im
                    /\ QAdd(decomp[c].factors[f][r].re, QInt(shifts[k][1])) = expo.re
            /\ DOMAIN data = {shifts[j][1] - shifts[k][1] : j \in k..Len(shifts)}
            /\ \A j \in k..Len(shifts) :
                Len(data[shifts[j][1] - shifts[k][1]]) = shifts[j][2]

\* C17: constructing LogSeriesInitialValues with an operator and check
\* enabled raises ValueError whenever the data do not match the indicial
\* structure; no mismatching input is accepted.
CE_C17 ==
    (/\ liv.pc = "done"
     /\ liv.input.check /\ liv.input.dop
     /\ ~MatchesIndicialStructure(liv.input.decomp, liv.input.expo, liv.input.data))
    => (liv.res.kind = "raise")

\* the same with the exponents that coerce into the field of the operator
RejectsWhenCoercible ==
    (/\ liv.pc = "done"
     /\ liv.input.check /\ liv.input.dop
     /\ liv.input.coercible \/ IsRational(liv.input.expo))
    => (liv.res.kind = "raise"
        <=> (~liv.input.numeric
             \/ ~MatchesIndicialStructure(liv.input.decomp, liv.input.expo,
                                          liv.input.data)))

(***************************************************************************)
(* Summation of series (naive_sum.py).  The magnitudes are inputs: each    *)
(* call of tgt_error.reached answers TRUE or FALSE or raises               *)
(* PrecisionError, each call of maj.matrix_sol_tail_bound returns a        *)
(* positive bound, and the balls summed have some radius.  A ball is       *)
(* [mid, rad] and only its radius is followed.                             *)
(***************************************************************************)
\* the index after which the term loops are not followed
MaxN == 4
\* number of parameters of series_sum_ordinary_doit
DoitParams == 8
\* number of arguments series_sum_ordinary passes to series_sum_ordinary_doit
DoitArgs == 9

Reached == {"True", "False", "PrecisionError"}
TailBounds == {1, 2}

\* Integer.nbits
RECURSIVE nbits(_)
nbits(n) == IF n = 0 THEN 0 ELSE 1 + nbits(n \div 2)

\* lines 215-216: bit_prec = prec_from_eps(eps); bit_prec += 3*bit_prec.nbits()
padded_prec(prec_from_eps) == prec_from_eps + 3 * nbits(prec_from_eps)

\* _add_error(approx, error): approx.add_error(error)
add_error(approx, error) == [approx EXCEPT !.rad = @ + error]

\* line 274: the test that leads to the call of maj.matrix_sol_tail_bound
ordinary_bounds_tail(heur, record) == heur = "True" \/ record

\* variant of regular_cond that does not look at the stride
regular_cond_any_index(n, stride, heur, orddeq, mult) ==
    heur = "True" /\ n > orddeq /\ mult = 0

\* lines 464-466: cond in series_sum_regular
regular_cond(n, stride, heur, orddeq, mult) ==
    n % stride = 0 /\ heur = "True" /\ n > orddeq /\ mult = 0

\* the end of a call of series_sum_ordinary_doit: in series_sum_ordinary, a
\* PrecisionError doubles bit_prec and leads to another attempt (lines
\* 217-225); anything else ends the caller as well
doit_exit(s, result) ==
    IF s.caller = "series_sum_ordinary"
       /\ result.kind = "raise" /\ result.exn = "PrecisionError"
    THEN [s EXCEPT !.pc = "attempt", !.bit_prec = 2 * @]
    ELSE [s EXCEPT !.pc = "done", !.res = result]

\* series_sum_ordinary up to the loop of attempts: lines 196-216
series_sum_ordinary ==
    /\ sm.pc = "start"
    /\ sm.fn = "series_sum_ordinary"
    /\ sm' = [sm EXCEPT !.pc = "attempt", !.caller = "series_sum_ordinary",
                        !.bit_prec = padded_prec(sm.input.prec_from_eps)]
    /\ UNCHANGED <<stmVars, pathVars, nextId, chk, lbm, liv, moreVars>>

\* lines 219-220: the call of series_sum_ordinary_doit, which raises
\* TypeError when the arguments are not as many as the parameters
Attempt ==
    /\ sm.pc = "attempt"
    /\ sm' = IF DoitArgs # DoitParams
             THEN doit_exit(sm, Raise("TypeError"))
             ELSE [sm EXCEPT !.pc = "doit"]
    /\ UNCHANGED <<stmVars, pathVars, nextId, chk, lbm, liv, moreVars>>

\* series_sum_ordinary_doit up to its term loop: lines 234-258.  The name
\* dop (line 244) is neither a parameter nor a global of the module: it is
\* found only when the caller's session has bound it there
series_sum_ordinary_doit ==
    /\ \/ sm.pc = "doit"
       \/ sm.pc = "start" /\ sm.fn = "series_sum_ordinary_doit"
    /\ sm' = IF ~sm.input.dop_bound
             THEN doit_exit(sm, Raise("NameError"))
             ELSE [sm EXCEPT !.pc = "loop", !.n = sm.input.orddeq,
                             !.attempts = Append(@, sm.bit_prec),
                             !.tail_bound = "infinity",
                             !.recorded = <<>>, !.lastTail = NoTail,
                             !.left = FALSE]
    /\ UNCHANGED <<stmVars, pathVars, nextId, chk, lbm, liv, moreVars>>

\* one iteration of the loop of lines 259-292, and the lines 293-301 when
\* it is the last
OrdinaryIter ==
    /\ sm.pc = "loop"
    /\ sm.fn # "series_sum_regular"
    /\ sm.n <= MaxN
    /\ \E heur \in Reached, tb \in TailBounds, cert \in Reached :
       \E psum \in [1..sm.input.ncoef -> {[mid |-> "psum", rad |-> r] : r \in 0..1}] :
        LET n == sm.n
            record == sm.input.record_bounds
            next == [sm EXCEPT !.n = n + 1]
            bounded == [sm EXCEPT !.tail_bound = tb,
                            !.lastTail = [n |-> n, heur |-> heur, bound |-> tb,
                                          reached |-> cert],
                            !.recorded = IF record THEN Append(@, <<n, tb>>) ELSE @]
        IN  sm' =
              IF n % sm.input.stride # 0 THEN next
              ELSE IF heur = "PrecisionError"
              THEN doit_exit(sm, Raise("PrecisionError"))
              ELSE IF ~ordinary_bounds_tail(heur, record) THEN next
              ELSE IF cert = "PrecisionError"
              THEN doit_exit(bounded, Raise("PrecisionError"))
              ELSE IF cert = "False" THEN [bounded EXCEPT !.n = n + 1]
              ELSE doit_exit([bounded EXCEPT !.left = TRUE, !.psum = psum],
                             Value([i \in 1..sm.input.ncoef |->
                                        add_error(psum[i], tb)]))
    /\ UNCHANGED <<stmVars, pathVars, nextId, chk, lbm, liv, moreVars>>

\* series_sum_regular up to its term loop: lines 440-453
series_sum_regular ==
    /\ sm.pc = "start"
    /\ sm.fn = "series_sum_regular"
    /\ sm' = [sm EXCEPT !.pc = "loop", !.n = 0]
    /\ UNCHANGED <<stmVars, pathVars, nextId, chk, lbm, liv, moreVars>>

\* one iteration of the loop of lines 455-496, and the lines 498-500 when
\* it is the last
RegularIter ==
    /\ sm.pc = "loop"
    /\ sm.fn = "series_sum_regular"
    /\ sm.n <= MaxN
    /\ \E heur \in Reached, tb \in TailBounds, cert \in Reached :
       \E val \in [1..sm.input.ncoef -> {[mid |-> "val", rad |-> r] : r \in 0..1}] :
        LET n == sm.n
            mult == IF n \in sm.input.special THEN 1 ELSE 0
            next == [sm EXCEPT !.n = n + 1]
            bounded == [sm EXCEPT !.tail_bound = tb,
                            !.lastTail = [n |-> n, heur |-> heur, bound |-> tb,
                                          reached |-> cert]]
        IN  sm' =
              IF n % sm.input.stride = 0 /\ heur = "PrecisionError"
              THEN [sm EXCEPT !.pc = "done", !.res = Raise("PrecisionError")]
              ELSE IF ~regular_cond(n, sm.input.stride, heur, sm.input.orddeq, mult)
              THEN next
              ELSE IF cert = "PrecisionError"
              THEN [bounded EXCEPT !.pc = "done", !.res = Raise("PrecisionError")]
              ELSE IF cert = "False" THEN [bounded EXCEPT !.n = n + 1]
              ELSE [bounded EXCEPT !.pc = "done", !.left = TRUE, !.psum = val,
                                   !.res = Value(val)]
    /\ UNCHANGED <<stmVars, pathVars, nextId, chk, lbm, liv, moreVars>>

SumInputs ==
    {[stride |-> st, record_bounds |-> rec, dop_bound |-> db, orddeq |-> o,
      special |-> sp, ncoef |-> nc, prec_from_eps |-> p] :
        st \in {1, 2}, rec \in BOOLEAN, db \in BOOLEAN, o \in {1, 2},
        sp \in {{}, {0}, {0, 2}}, nc \in {1, 2}, p \in {4, 53}}

InitSum ==
    /\ ctx = dctx
    /\ oper = DopBessel
    /\ stack = <<>>
    /\ outcome = NoResult
    /\ lastCall = NoCall
    /\ lastSplit = NoSplit
    /\ nextId = 1
    /\ vert = <<>>
    /\ new = <<>>
    /\ idx = 0
    /\ ppc = "idle"
    /\ pass = 0
    /\ first = <<>>
    /\ lastIter = NoIter
    /\ raised = "none"
    /\ chk = NoChk
    /\ lbm = NoLbm
    /\ liv = NoLiv
    /\ \E fn \in {"series_sum_ordinary", "series_sum_ordinary_doit",
                  "series_sum_regular"} :
       \E input \in SumInputs :
        /\ fn = "series_sum_regular" => ~input.record_bounds /\ ~input.dop_bound
        /\ fn = "series_sum_ordinary_doit" => input.special = {}
        /\ fn = "series_sum_ordinary" => input.special = {} /\ ~input.dop_bound
        /\ sm = [pc |-> "start", fn |-> fn, input |-> input, caller |-> "none",
                 bit_prec |-> input.prec_from_eps, attempts |-> <<>>, n |-> 0,
                 tail_bound |-> "none", recorded |-> <<>>, lastTail |-> NoTail,
                 left |-> FALSE, psum |-> <<>>, res |-> NoResult]
    /\ ac = NoAc
    /\ dw = NoDw
    /\ ls = NoLs
    /\ lv = NoLv

NextSum ==
    \/ series_sum_ordinary
    \/ Attempt
    \/ series_sum_ordinary_doit
    \/ OrdinaryIter
    \/ series_sum_regular
    \/ RegularIter

SpecSum == InitSum /\ [][NextSum]_vars

(***************************************************************************)
(* Properties of the summation                                             *)
(***************************************************************************)
\* C18: both summation variants leave their term loop only at an index n
\* that is a multiple of stride, after the tail bound has been computed at
\* this n and met the target; the heuristic estimate alone never stops the
\* summation, and the tail bound is computed only at multiples of stride
\* where the heuristic estimate meets the target or the bounds are recorded.
Thm_C18 ==
    /\ sm.pc \in {"loop", "done", "attempt"} /\ sm.left =>
        /\ sm.n % sm.input.stride = 0
        /\ sm.lastTail.n = sm.n
        /\ sm.lastTail.reached = "True"
        /\ sm.tail_bound = sm.lastTail.bound
    /\ sm.pc \in {"loop", "done", "attempt"} /\ sm.lastTail # NoTail =>
        /\ sm.lastTail.n % sm.input.stride = 0
        /\ sm.lastTail.heur = "True" \/ sm.input.record_bounds
    /\ sm.pc = "done" /\ sm.res.kind = "value" => sm.left

Witness_C18 ==
    /\ sm.pc = "done"
    /\ sm.fn = "series_sum_regular"
    /\ sm.left
    /\ sm.input.stride = 2
    /\ sm.n = 4
    /\ sm.input.special = {0, 2}

\* C19: every coefficient of the vector returned by a summation, ordinary
\* or regular singular, is the coefficient of the sum with the certified
\* tail bound added to its radius.
CE_C19 ==
    (sm.pc = "done" /\ sm.res.kind = "value") =>
        \A i \in 1..Len(sm.res.mat) :
            sm.res.mat[i].rad = sm.psum[i].rad + sm.tail_bound

\* the ordinary variant adds the tail bound
OrdinaryAddsTailBound ==
    (sm.pc = "done" /\ sm.res.kind = "value" /\ sm.fn # "series_sum_regular") =>
        \A i \in 1..Len(sm.res.mat) :
            sm.res.mat[i].rad = sm.psum[i].rad + sm.tail_bound

RECURSIVE Pow2(_)
Pow2(k) == IF k = 0 THEN 1 ELSE 2 * Pow2(k - 1)

\* C20: series_sum_ordinary runs the summation at the precision derived from
\* the target error, padded, then again at twice the precision of the
\* attempt before each time an attempt raises PrecisionError, and ends with
\* the result of the first attempt that does not: its value, or its
\* exception, which is not a PrecisionError.
CE_C20 ==
    (sm.pc = "done" /\ sm.fn = "series_sum_ordinary") =>
        /\ sm.attempts # <<>>
        /\ \A k \in 1..Len(sm.attempts) :
            sm.attempts[k] = padded_prec(sm.input.prec_from_eps) * Pow2(k - 1)
        /\ sm.res.kind = "raise" => sm.res.exn # "PrecisionError"

\* the number of doublings of the precision among which a cap is looked for
MaxDoublings == 6

JustEntered == stack # <<>> /\ Top.pc = "ret" /\ Top.sub = <<>>

SameValue(f) == f.arg.start.value = f.arg.end.value /\ f.arg.start.exact /\ f.arg.end.exact

\* C24: step_transition_matrix returns without calling a summation backend
\* the 0 by 0 matrix when the operator has order 0, and otherwise the first
\* `rows` rows of the identity when the endpoints have equal values;
\* otherwise it raises ValueError when neither endpoint is ordinary or an
\* endpoint is irregular; it computes a step from an ordinary point into a
\* regular singular point as the inverse of the matrix of the reversed step
\* at half the tolerance.
Thm_C24 ==
    /\ JustEntered =>
        LET z0 == Top.arg.start
            z1 == Top.arg.end
        IN  /\ oper.order = 0 =>
                /\ Top.res = Value(<<Factor("empty", z0.value, z1.value, 0, 0)>>)
                /\ lastCall = NoCall
            /\ (oper.order # 0 /\ SameValue(Top)) =>
                /\ Top.res = Value(<<Factor("identity", z0.value, z1.value, Top.rows, 0)>>)
                /\ lastCall = NoCall
            /\ ( /\ oper.order # 0 /\ ~SameValue(Top)
                 /\ \/ z0.value \in oper.sing /\ z1.value \in oper.sing
                    \/ z0.value \in oper.irr \/ z1.value \in oper.irr ) =>
                /\ Top.res = Raise("ValueError")
                /\ lastCall = NoCall
    /\ \A i \in 1..Len(stack) :
        LET f == stack[i]
            eps0 == IF i = 1 THEN 0 ELSE stack[i - 1].eps + 2
        IN  ( /\ f.pc = "ret" /\ f.res.kind = "value"
              /\ oper.order # 0 /\ ~SameValue(f)
              /\ f.arg.start.value \notin oper.sing
              /\ f.arg.end.value \in oper.sing \ oper.irr ) =>
                /\ f.step.start = f.arg.end
                /\ f.step.end = f.arg.start
                /\ f.eps = eps0 + 1
                /\ Chain(f.mat, f.step)
                /\ f.sub = <<>> => f.mat = <<Factor("fund", f.arg.end.value,
                                                    f.arg.start.value, f.rows, eps0 + 1)>>
                /\ f.res.mat = MatInverse(f.mat)

Witness_C24 ==
    /\ stack # <<>>
    /\ Top.pc = "ret" /\ Top.res.kind = "value"
    /\ Top.arg.start.value \notin oper.sing
    /\ Top.arg.end.value \in oper.sing
    /\ Top.sub # <<>>
    /\ Top.res.mat = MatInverse(Top.mat)

\* C25: under the default policy, binary splitting not being selected by the
\* heuristic: when the step has split budget (fail_fast), direct summation is
\* the only backend called and its PrecisionError propagates, after which
\* the caller splits the step; when it has none, a PrecisionError of direct
\* summation is followed by one call of binary splitting, whose result is
\* the result, unless it raises NotImplementedError: then the PrecisionError
\* of direct summation is raised.
Thm_C25 ==
    (lastCall # NoCall /\ ctx = dctx /\ ~lastCall.use_binsplit) =>
        LET inv == lastCall.invoked
        IN  /\ inv[1].backend = "naive"
            /\ lastCall.step.max_split > 0 =>
                /\ Len(inv) = 1
                /\ lastCall.res = Backend(inv[1].args, inv[1].outcome)
                /\ inv[1].outcome = "PrecisionError" =>
                    /\ lastCall.res = Raise("PrecisionError")
                    /\ lastSplit # NoSplit
                    /\ lastSplit.step = lastCall.step
            /\ (lastCall.step.max_split = 0 /\ inv[1].outcome # "PrecisionError") =>
                /\ Len(inv) = 1
                /\ lastCall.res = Backend(inv[1].args, inv[1].outcome)
            /\ (lastCall.step.max_split = 0 /\ inv[1].outcome = "PrecisionError") =>
                /\ Len(inv) = 2
                /\ inv[2].backend = "binsplit"
                /\ inv[2].args = inv[1].args
                /\ lastCall.res = IF inv[2].outcome = "NotImplementedError"
                                  THEN Raise("PrecisionError")
                                  ELSE Backend(inv[2].args, inv[2].outcome)
                /\ lastSplit = NoSplit

Witness_C25 ==
    /\ lastCall # NoCall
    /\ ~lastCall.use_binsplit
    /\ lastCall.step.max_split = 0
    /\ Len(lastCall.invoked) = 2
    /\ lastCall.invoked[2].outcome = "NotImplementedError"
    /\ lastCall.res = Raise("PrecisionError")

\* C30: Path.subdivide() ends on every path whose steps avoid the
\* singularities of the operator: it raises nothing, before each vertex of
\* the input path is reached its loop inserts fewer than MaxNew points, so
\* that it is never stopped for having inserted too many, and the path it
\* returns starts with the first vertex of the input path and ends with its
\* last.
Thm_C30 ==
    ~path_check_singularity(vert, oper) =>
        /\ ppc # "failed"
        /\ ( /\ ppc = "loop" /\ idx < Len(vert)
             /\ ~subdivide_accepts(new[Len(new)], vert[idx + 1], oper) ) =>
                LegInsertions < MaxNew
        /\ ppc = "loop" /\ idx >= Len(vert) => new[Len(new)] = vert[Len(vert)]
        /\ ppc = "done" => (new[1] = vert[1] /\ new[Len(new)] = vert[Len(vert)])

Witness_C30 ==
    /\ ppc = "done"
    /\ pass = 1
    /\ Len(vert) = 3
    /\ Len(new) >= Len(vert) + 3
    /\ new[1] = vert[1]
    /\ new[Len(new)] = vert[Len(vert)]


(***************************************************************************)
(* analytic_continuation and _process_path.  The call is at one of the     *)
(* positions                                                               *)
(*   "start"      before line 186                                          *)
(*   "processed"  _process_path has returned and ini has been converted    *)
(*   "loop"       at the head of the loop over the steps of the path       *)
(*   "returned"   the list res has been returned                           *)
(*   "raised"     the call has raised (exn tells the exception)            *)
(* A transition matrix is the name of the step it was computed for and a   *)
(* product of matrices is the sequence of its factors, leftmost first.     *)
(* The points that bypass_singularities() inserts leave the real line: the *)
(* model follows how many it inserts and between which vertices, and what  *)
(* the rest of _process_path does with a path that holds such points is    *)
(* left open (it raises ValueError, or subdivide() inserts no point, or    *)
(* one point before each vertex).                                          *)
(***************************************************************************)
\* the zero operator
DopZero == [order |-> -1, degree |-> -1, sing |-> {}, irr |-> {}]

\* variant of is_zero that takes every operator for a nonzero one
is_zero_never(dop) == FALSE

\* dop.is_zero()
is_zero(dop) == dop = DopZero

\* Point.simple_approx (a cached method): the point itself when it is exact,
\* and otherwise one other Point object, the same at every call
simple_approx(p) == IF p.exact THEN p ELSE Point(-p.id, p.value, TRUE)

\* variant of keep_value that holds of every point
keep_value_always(p, kept) == TRUE

\* Point.keep_value, kept the set of the points whose options have a true
\* keep_value
keep_value(p, kept) == p.id \in kept

\* variant of chain_simple that starts the main step at the start of the step
chain_simple_from_start(step, prev, kept) ==
    [asserted |-> prev.end.id = simple_approx(step.start).id,
     main |-> Step(step.start, simple_approx(step.end), "None", step.branch, -1),
     dev |-> IF keep_value(step.end, kept)
             THEN <<Step(simple_approx(step.end), step.end, "deviation", "None", 0)>>
             ELSE <<>>]

\* Step.chain_simple: whether the assertion holds, the main step and the
\* deviation step (<<>> stands for None)
chain_simple(step, prev, kept) ==
    [asserted |-> prev.end.id = simple_approx(step.start).id,
     main |-> Step(prev.end, simple_approx(step.end), "None", step.branch, -1),
     dev |-> IF keep_value(step.end, kept)
             THEN <<Step(simple_approx(step.end), step.end, "deviation", "None", 0)>>
             ELSE <<>>]

\* the options keep_value that _process_path sets on the vertices of the path
mark_keep(v, keep) ==
    IF keep = "all" THEN {v[i].id : i \in 1..Len(v)} ELSE {v[Len(v)].id}

\* Path.subdivide from the list new = nw and the index i, k points having
\* been inserted since the last vertex of v was appended, id the number of
\* Point objects built so far
RECURSIVE subdivide_from(_, _, _, _, _, _)
subdivide_from(nw, i, k, v, dop, id) ==
    IF i >= Len(v) THEN [exn |-> "none", path |-> nw, id |-> id]
    ELSE LET cur == nw[Len(nw)]
             next == v[i + 1]
         IN  IF subdivide_accepts(cur, next, dop)
             THEN subdivide_from(Append(nw, next), i + 1, 0, v, dop, id)
             ELSE IF k >= MaxNew THEN [exn |-> "cut", path |-> nw, id |-> id]
             ELSE LET iv == subdivide_interm(cur, next, dop)
                  IN  IF interm_check_singularity(cur, iv, dop)
                      THEN [exn |-> "ValueError", path |-> nw, id |-> id]
                      ELSE subdivide_from(
                               Append(nw, Point(id + 1, rationalize_iv(iv[1], iv[2]), TRUE)),
                               i, k + 1, v, dop, id + 2)

\* Path.subdivide
subdivide(v, dop, id) == subdivide_from(<<v[1]>>, 1, 0, v, dop, id)

\* the number of points that bypass_singularities inserts for the singular
\* point s of the step: one, and one more at each end of the step that is
\* not closer to s than the other singular points are
bypass_count(step, s, dop) ==
    LET ds == dist_to_sing(Point(0, s, TRUE), dop)
        d0 == QAbs(QSub(s, step.start.value))
        d1 == QAbs(QSub(s, step.end.value))
    IN  1 + (IF QLt(d0, ds) THEN 0 ELSE 1) + (IF QLt(d1, ds) THEN 0 ELSE 1)

\* the points that bypass_singularities inserts in the step for the singular
\* points S, id the number of Point objects built so far; they are given the
\* value of the singular point they go round
RECURSIVE bypass_step(_, _, _, _)
bypass_step(step, S, dop, id) ==
    IF S = {} THEN <<>>
    ELSE LET s == CHOOSE x \in S : TRUE
             c == bypass_count(step, s, dop)
         IN  [j \in 1..c |-> Point(id + j - 1, s, TRUE)]
             \o bypass_step(step, S \ {s}, dop, id + c)

\* Path.bypass_singularities from the step i on
RECURSIVE bypass_from(_, _, _, _)
bypass_from(v, i, dop, id) ==
    IF i >= Len(v) THEN <<v[Len(v)]>>
    ELSE LET step == PathSteps(v)[i]
             ins == bypass_step(step, singularities(step, dop), dop, id)
         IN  <<v[i]>> \o ins \o bypass_from(v, i + 1, dop, id + Len(ins))

bypass_singularities(v, dop, id) == bypass_from(v, 1, dop, id)

\* one new point before each vertex of v but the first
one_before_each(v, id) ==
    [j \in 1..(2 * Len(v) - 1) |->
        IF j % 2 = 1 THEN v[(j + 1) \div 2]
        ELSE Point(id + (j \div 2) - 1, v[j \div 2].value, TRUE)]

\* the end of _process_path, from path = path.subdivide() on
process_path_end(v, kept, dop, id) ==
    LET r == subdivide(v, dop, id)
    IN  IF r.exn # "none" THEN [exn |-> r.exn, path |-> <<>>, kept |-> kept]
        ELSE IF path_check_singularity(r.path, dop) \/ path_check_convergence(r.path, dop)
        THEN [exn |-> "ValueError", path |-> <<>>, kept |-> kept]
        ELSE [exn |-> "none", path |-> r.path, kept |-> kept]

\* _process_path on the vertices v built by Path(path, dop): the outcomes it
\* may have
process_path(v, dop, c) ==
    IF ~c.assume_analytic /\ path_check_singularity(v, dop)
    THEN {[exn |-> "ValueError", path |-> <<>>, kept |-> {}]}
    ELSE IF \E i \in 1..Len(v) : ~is_regular(v[i], dop)
    THEN {[exn |-> "NotImplementedError", path |-> <<>>, kept |-> {}]}
    ELSE LET kept == mark_keep(v, c.keep)
             id == Len(v) + 1
         IN  IF ~c.assume_analytic THEN {process_path_end(v, kept, dop, id)}
             ELSE LET b == bypass_singularities(v, dop, id)
                  IN  IF Len(b) = Len(v) THEN {process_path_end(b, kept, dop, id)}
                      ELSE {[exn |-> "ValueError", path |-> <<>>, kept |-> kept],
                            [exn |-> "none", path |-> b, kept |-> kept],
                            [exn |-> "none", kept |-> kept,
                             path |-> one_before_each(b, id + Len(b) - Len(v))]}

\* the matrix that step_transition_matrix returns for the step
Mat(step) == [from |-> step.start.id, to |-> step.end.id, type |-> step.type]

\* point_dict(point, value)
point_dict(point, value) == [point |-> point, value |-> value]

\* Context.__init__: keep in ["all", "last"], assume_analytic
ACContexts ==
    [algorithm : {"None"}, force_algorithm : {FALSE},
     keep : {"all", "last"}, assume_analytic : BOOLEAN]

\* lines 186 to 206: the test of the operator, _process_path, the conversion
\* of ini
AnalyticContinuation ==
    /\ ac.pc = "start"
    /\ IF is_zero(oper)
       THEN ac' = [ac EXCEPT !.pc = "raised", !.exn = "ValueError"]
       ELSE IF ac.input = <<>>
       THEN ac' = [ac EXCEPT !.pc = "raised", !.exn = "ValueError"]
       ELSE LET v == [i \in 1..Len(ac.input) |->
                         Point(i, ac.input[i].value, ac.input[i].exact)]
            IN  \E r \in process_path(v, oper, ctx) :
                    IF r.exn # "none"
                    THEN ac' = [ac EXCEPT !.pc = "raised", !.exn = r.exn,
                                          !.vert = v, !.kept = r.kept]
                    ELSE IF ~ac.ini_ok
                    THEN ac' = [ac EXCEPT !.pc = "raised", !.exn = "ValueError",
                                          !.vert = v, !.kept = r.kept,
                                          !.path = r.path]
                    ELSE ac' = [ac EXCEPT !.pc = "processed", !.vert = v,
                                          !.kept = r.kept, !.path = r.path]
    /\ UNCHANGED <<stmVars, pathVars, nextId, chk, lbm, liv, sm, dw, ls, lv>>

\* lines 218 to 223: the step from z0 to its simple approximation and the
\* record of z0; ok tells whether step_transition_matrix returns
ACFirst ==
    /\ ac.pc = "processed"
    /\ \E ok \in BOOLEAN :
        LET z0 == ac.path[1]
            main == Step(z0, simple_approx(z0), "None", "None", -1)
        IN  IF ~ok
            THEN ac' = [ac EXCEPT !.pc = "raised", !.exn = "PrecisionError",
                                  !.calls = Append(@, main)]
            ELSE ac' = [ac EXCEPT !.pc = "loop", !.i = 1, !.main = main,
                                  !.mains = <<main>>,
                                  !.calls = Append(@, main),
                                  !.path_mat = <<Mat(main)>>,
                                  !.res = IF keep_value(z0, ac.kept)
                                          THEN <<point_dict(z0, <<>>)>>
                                          ELSE <<>>]
    /\ UNCHANGED <<stmVars, pathVars, nextId, chk, lbm, liv, sm, dw, ls, lv>>

\* one iteration of the loop of lines 224 to 230, on the step from
\* path.vert[i - 1] to path.vert[i] of the code; okm and okd tell whether the
\* calls of step_transition_matrix return
ACStep ==
    /\ ac.pc = "loop"
    /\ ac.i < Len(ac.path)
    /\ \E okm \in BOOLEAN, okd \in BOOLEAN :
        LET step == Step(ac.path[ac.i], ac.path[ac.i + 1], "None", "None", -1)
            cs == chain_simple(step, ac.main, ac.kept)
            path_mat == <<Mat(cs.main)>> \o ac.path_mat
        IN  IF ~cs.asserted
            THEN /\ okm /\ okd
                 /\ ac' = [ac EXCEPT !.pc = "raised", !.exn = "AssertionError"]
            ELSE IF ~okm
            THEN /\ okd
                 /\ ac' = [ac EXCEPT !.pc = "raised", !.exn = "PrecisionError",
                                     !.mains = Append(@, cs.main),
                                     !.calls = Append(@, cs.main)]
            ELSE IF cs.dev = <<>>
            THEN /\ okd
                 /\ ac' = [ac EXCEPT !.i = @ + 1, !.main = cs.main,
                                     !.mains = Append(@, cs.main),
                                     !.calls = Append(@, cs.main),
                                     !.path_mat = path_mat]
            ELSE IF ~okd
            THEN ac' = [ac EXCEPT !.pc = "raised", !.exn = "PrecisionError",
                                  !.main = cs.main,
                                  !.mains = Append(@, cs.main),
                                  !.calls = @ \o <<cs.main, cs.dev[1]>>,
                                  !.path_mat = path_mat]
            ELSE ac' = [ac EXCEPT !.i = @ + 1, !.main = cs.main,
                                  !.mains = Append(@, cs.main),
                                  !.calls = @ \o <<cs.main, cs.dev[1]>>,
                                  !.path_mat = path_mat,
                                  !.res = Append(@, point_dict(cs.dev[1].end,
                                              <<Mat(cs.dev[1])>> \o path_mat))]
    /\ UNCHANGED <<stmVars, pathVars, nextId, chk, lbm, liv, sm, dw, ls, lv>>

\* the loop is over: res is returned
ACReturn ==
    /\ ac.pc = "loop"
    /\ ac.i >= Len(ac.path)
    /\ ac' = [ac EXCEPT !.pc = "returned"]
    /\ UNCHANGED <<stmVars, pathVars, nextId, chk, lbm, liv, sm, dw, ls, lv>>

\* the calls: an operator, 0 to MaxPathLen vertices on the real line, the
\* vertex 3 being given exactly or as a ball, the options keep and
\* assume_analytic, initial values that convert to a matrix or do not
ACVertices ==
    [value : {<<-1, 1>>, <<0, 1>>, <<1, 1>>, <<8, 1>>}, exact : {TRUE}]
        \union {[value |-> <<3, 1>>, exact |-> FALSE]}
ACDops == {DopZero, DopIrregular, DopTwoSing}
ACPaths == UNION {[1..n -> ACVertices] : n \in 0..MaxPathLen}

InitAC ==
    /\ ctx \in ACContexts
    /\ oper \in ACDops
    /\ stack = <<>>
    /\ outcome = NoResult
    /\ lastCall = NoCall
    /\ lastSplit = NoSplit
    /\ nextId = 1
    /\ vert = <<>>
    /\ new = <<>>
    /\ idx = 0
    /\ ppc = "idle"
    /\ pass = 0
    /\ first = <<>>
    /\ lastIter = NoIter
    /\ raised = "none"
    /\ chk = NoChk
    /\ lbm = NoLbm
    /\ liv = NoLiv
    /\ sm = NoSm
    /\ \E input \in ACPaths, ini_ok \in BOOLEAN :
        ac = [pc |-> "start", input |-> input, ini_ok |-> ini_ok, exn |-> "none",
              vert |-> <<>>, kept |-> {}, path |-> <<>>, i |-> 0,
              main |-> Step(NoPoint, NoPoint, "None", "None", -1),
              mains |-> <<>>, calls |-> <<>>, path_mat |-> <<>>, res |-> <<>>]
    /\ dw = NoDw
    /\ ls = NoLs
    /\ lv = NoLv

NextAC ==
    \/ AnalyticContinuation
    \/ ACFirst
    \/ ACStep
    \/ ACReturn

SpecAC == InitAC /\ [][NextAC]_vars


\* the identities of the points of a sequence of points
Ids(v) == [i \in 1..Len(v) |-> v[i].id]

\* C22: the list that analytic_continuation returns holds, in the order of
\* the path, one record for each vertex of the input path whose keep_value
\* option is set and no other record: the record of the last vertex alone
\* with keep = "last", one record for each input vertex with keep = "all".
Thm_C22 ==
    ac.pc = "returned" =>
        LET got == [r \in 1..Len(ac.res) |-> ac.res[r].point]
            last == ac.vert[Len(ac.vert)]
        IN  /\ Ids(got) = SelectSeq(Ids(ac.vert), LAMBDA x : x \in ac.kept)
            /\ \A r \in 1..Len(got) : \E i \in 1..Len(ac.input) :
                   got[r].id = i /\ got[r].value = ac.input[i].value
            /\ ctx.keep = "last" => Ids(got) = <<last.id>>
            /\ ctx.keep = "all" => Ids(got) = Ids(ac.vert)

Witness_C22 ==
    /\ ac.pc = "returned"
    /\ ctx.keep = "all"
    /\ Len(ac.vert) = 3
    /\ Len(ac.path) > Len(ac.vert) + 2
    /\ Len(ac.res) = 3

Thm_C26 ==
    ac.pc \in {"loop", "returned", "raised"} =>
        LET m == Len(ac.mains)
            product(k) == [j \in 1..k |-> Mat(ac.mains[k + 1 - j])]
        IN  /\ ac.exn # "AssertionError"
            /\ m > 0 => ac.mains[1].start.id = ac.path[1].id
            /\ \A j \in 1..(m - 1) : ac.mains[j + 1].start.id = ac.mains[j].end.id
            /\ ac.pc # "raised" => ac.path_mat = product(m)
            /\ \A j \in 1..Len(ac.path_mat) : ac.path_mat[j].type # "deviation"
            /\ \A r \in 1..Len(ac.res) :
                   LET val == ac.res[r].value
                   IN  \/ val = <<>> /\ r = 1 /\ ac.res[r].point.id = ac.path[1].id
                       \/ /\ Len(val) >= 2
                          /\ val[1].type = "deviation"
                          /\ val[1].to = ac.res[r].point.id
                          /\ val[1].from = ac.mains[Len(val) - 1].end.id
                          /\ Tail(val) = product(Len(val) - 1)

Witness_C26 ==
    /\ ac.pc = "returned"
    /\ ctx.keep = "all"
    /\ Len(ac.mains) >= 5
    /\ \E j \in 2..(Len(ac.path) - 1) : ~ac.path[j].exact
    /\ Len(ac.res) = 3
    /\ Len(ac.res[3].value) >= 5


(***************************************************************************)
(* The window of coefficients of series_sum_ordinary_doit.  The call is at *)
(* one of the positions                                                    *)
(*   "start"     before line 234                                           *)
(*   "singular"  in the loop of lines 251 to 256                           *)
(*   "main"      in the loop of lines 259 to 292, before last.rotate(1)    *)
(*   "done"      the loop has been left by the break of line 285           *)
(*   "raised"    the call has raised (exn tells the exception)             *)
(* terms[j + 1] is the coefficient that the code has multiplied by the     *)
(* j-th power of the jet and added to psum.  last[k] of the code is        *)
(* last[k + 1] here.  Whether the tail bound has reached the target at a   *)
(* multiple of stride is left open.                                        *)
(***************************************************************************)
\* the value at n of the polynomial of coefficients p (lowest degree first)
RECURSIVE PolyEval(_, _)
PolyEval(p, n) == IF p = <<>> THEN 0 ELSE p[1] + n * PolyEval(Tail(p), n)

\* backward_rec(dop) for some operators: bwrec[k] is the coefficient of
\* Sn^(ordrec - k) of dop.to_S() with n - ordrec put for n
BwrecExp == <<<<0, 1>>, <<-1>>>>                       \* Dx - 1
BwrecAiry == <<<<0, -1, 1>>, <<>>, <<>>, <<-1>>>>      \* Dx^2 - x
BwrecCos == <<<<0, -1, 1>>, <<>>, <<1>>>>              \* Dx^2 + 1
BwrecArctan == <<<<0, -1, 1>>, <<>>, <<2, -3, 1>>, <<>>, <<>>>>  \* (x^2+1)*Dx^2 + 2*x*Dx
BwrecGauss == <<<<0, 1>>, <<>>, <<-1>>>>               \* Dx - x
BwrecOne == <<<<1>>>>                                  \* the operator 1

DoitOperators ==
    {[order |-> 1, bwrec |-> BwrecExp], [order |-> 2, bwrec |-> BwrecAiry],
     [order |-> 2, bwrec |-> BwrecCos], [order |-> 2, bwrec |-> BwrecArctan],
     [order |-> 1, bwrec |-> BwrecGauss], [order |-> 0, bwrec |-> BwrecOne]}

\* variant of rotate that moves the first entry to the end
rotate_left(s) == Tail(s) \o <<s[1]>>

\* deque.rotate(1): the last entry moves to the front
rotate(s) == <<s[Len(s)]>> \o SubSeq(s, 1, Len(s) - 1)

\* lines 245 to 247: the deque last before the first rotation
initial_last(ordrec, order, ini) ==
    [k \in 1..(IF ordrec - order + 1 > 0 THEN ordrec - order + 1 ELSE 0) |-> <<0, 1>>]
        \o [k \in 1..order |-> ini[order + 1 - k]]

\* lines 286 and 287: the coefficient of z^n from the window of list last
next_coefficient(bwrec, n, last) ==
    LET ordrec == Len(bwrec) - 1
        RECURSIVE comb(_)
        comb(k) == IF k = 0 THEN <<0, 1>>
                   ELSE QAdd(comb(k - 1),
                             QMul(QInt(PolyEval(bwrec[k + 1], n)), last[k + 1]))
    IN  QNeg(QMul(QDiv(<<1, 1>>, QInt(PolyEval(bwrec[1], n))), comb(ordrec)))

\* lines 234 to 248
DoitStart ==
    /\ dw.pc = "start"
    /\ LET ordrec == Len(dw.bwrec) - 1
           last == initial_last(ordrec, dw.order, dw.ini)
       IN  IF ~dw.dop_bound
           THEN dw' = [dw EXCEPT !.pc = "raised", !.exn = "NameError"]
           ELSE IF Len(dw.ini) < dw.order
           THEN dw' = [dw EXCEPT !.pc = "raised", !.exn = "KeyError"]
           ELSE IF Len(last) # ordrec + 1
           THEN dw' = [dw EXCEPT !.pc = "raised", !.exn = "AssertionError"]
           ELSE dw' = [dw EXCEPT !.pc = IF dw.order > 0 THEN "singular" ELSE "main",
                                 !.last = last, !.n = 0]
    /\ UNCHANGED <<stmVars, pathVars, nextId, chk, lbm, liv, sm, ac, ls, lv>>

\* one iteration of the loop of lines 251 to 256
DoitSingular ==
    /\ dw.pc = "singular"
    /\ LET last == rotate(dw.last)
       IN  dw' = [dw EXCEPT !.last = last, !.terms = Append(@, last[1]),
                            !.n = @ + 1,
                            !.pc = IF dw.n + 1 < dw.order THEN "singular" ELSE "main"]
    /\ UNCHANGED <<stmVars, pathVars, nextId, chk, lbm, liv, sm, ac, ls, lv>>

\* one iteration of the loop of lines 259 to 292; reached tells whether the
\* tests of lines 270 and 284 hold
DoitIter ==
    /\ dw.pc = "main"
    /\ \E reached \in BOOLEAN :
        LET last == rotate(dw.last)
            c == next_coefficient(dw.bwrec, dw.n, last)
        IN  IF dw.n % dw.stride = 0 /\ reached
            THEN dw' = [dw EXCEPT !.pc = "done", !.last = last, !.window = last]
            ELSE /\ ~reached
                 /\ dw.n < MaxN
                 /\ dw' = [dw EXCEPT !.last = [last EXCEPT ![1] = c],
                                     !.window = last,
                                     !.terms = Append(@, c), !.n = @ + 1]
    /\ UNCHANGED <<stmVars, pathVars, nextId, chk, lbm, liv, sm, ac, ls, lv>>

\* the calls: an operator with its recurrence, the initial values, stride,
\* whether the name dop is bound where the function is defined
DoitInis == UNION {[1..m -> {<<1, 1>>, <<2, 1>>}] : m \in 0..2}

InitDoit ==
    /\ ctx = dctx
    /\ oper = DopBessel
    /\ stack = <<>>
    /\ outcome = NoResult
    /\ lastCall = NoCall
    /\ lastSplit = NoSplit
    /\ nextId = 1
    /\ vert = <<>>
    /\ new = <<>>
    /\ idx = 0
    /\ ppc = "idle"
    /\ pass = 0
    /\ first = <<>>
    /\ lastIter = NoIter
    /\ raised = "none"
    /\ chk = NoChk
    /\ lbm = NoLbm
    /\ liv = NoLiv
    /\ sm = NoSm
    /\ ac = NoAc
    /\ \E op \in DoitOperators, ini \in DoitInis, stride \in 1..2, b \in BOOLEAN :
        dw = [pc |-> "start", order |-> op.order, bwrec |-> op.bwrec, ini |-> ini,
              stride |-> stride, dop_bound |-> b, exn |-> "none", n |-> 0,
              last |-> <<>>, window |-> <<>>, terms |-> <<>>]
    /\ ls = NoLs
    /\ lv = NoLv

NextDoit ==
    \/ DoitStart
    \/ DoitSingular
    \/ DoitIter

SpecDoit == InitDoit /\ [][NextDoit]_vars

\* the coefficient of z^j that the code has added to psum, 0 for negative j
CoefficientOf(j) == IF j < 0 THEN <<0, 1>> ELSE dw.terms[j + 1]

RECURSIVE Binomial(_, _)
Binomial(n, k) ==
    IF k = 0 THEN 1 ELSE IF n = 0 THEN 0
    ELSE Binomial(n - 1, k - 1) + Binomial(n - 1, k)

RECURSIVE Power(_, _)
Power(x, k) == IF k = 0 THEN 1 ELSE x * Power(x, k - 1)

RECURSIVE QSum(_, _, _)
\* the sum of f[k] for k from a to b
QSum(f, a, b) == IF a > b THEN <<0, 1>> ELSE QAdd(f[a], QSum(f, a + 1, b))

\* BwShiftRec._coeff_series(i, j)(point) for the polynomial p = coeff[i]: the
\* coefficient of index j of the Taylor expansion of p at point
coeff_series(p, j, point) ==
    LET deg == Len(p) - 1
        RECURSIVE sum(_)
        sum(k) == IF k > deg - j THEN 0
                  ELSE Binomial(k + j, k) * p[k + j + 1] * Power(point, k) + sum(k + 1)
    IN  sum(0)

\* BwShiftRec.eval_series(Coeffs, point, ord)[i][j]
eval_series(bwrec, point, i, j) == QInt(coeff_series(bwrec[i + 1], j, point))

\* ini.shift.get(n, ())
shift_get(shift, n) == IF n + 1 <= Len(shift) THEN shift[n + 1] ELSE <<>>

\* variant of log_series_mult that finds no initial value at any index
log_series_mult_none(shift, n) == 0

\* mult = len(ini.shift.get(n, ()))
log_series_mult(shift, n) == Len(shift_get(shift, n))

\* log_prec = sum(len(v) for v in ini.shift.itervalues())
log_series_prec(shift) ==
    LET RECURSIVE total(_)
        total(k) == IF k = 0 THEN 0 ELSE Len(shift[k]) + total(k - 1)
    IN  total(Len(shift))

\* combin of lines 470 to 474 for the slot mult + p of new_term
log_series_combin(bwrec, series, n, new_term, mult, p, log_prec) ==
    LET ord == Len(bwrec) - 1
        prev == IF ord < n THEN ord ELSE n
        inner(j) == QSum([i \in 1..prev |->
                            QMul(eval_series(bwrec, n, i, j), series[n + 1 - i][p + j + 1])],
                         1, prev)
        a == QSum([j1 \in 1..(log_prec - p) |-> inner(j1 - 1)], 1, log_prec - p)
        b == QSum([j \in (mult + 1)..(log_prec - p - 1) |->
                      QMul(eval_series(bwrec, n, 0, j), new_term[p + j + 1])],
                  mult + 1, log_prec - p - 1)
    IN  QAdd(a, b)

\* the loop of lines 469 to 475 from p down to 0: the vector new_term, or
\* <<>> when the coefficient bwrec_nplus[0][0][mult] has no inverse
RECURSIVE log_series_solve(_, _, _, _, _, _, _)
log_series_solve(bwrec, series, n, new_term, mult, p, log_prec) ==
    IF p < 0 THEN new_term
    ELSE IF eval_series(bwrec, n, 0, mult) = <<0, 1>> THEN <<>>
    ELSE LET c == QNeg(QMul(QDiv(<<1, 1>>, eval_series(bwrec, n, 0, mult)),
                            log_series_combin(bwrec, series, n, new_term, mult, p, log_prec)))
         IN  log_series_solve(bwrec, series, n,
                              [new_term EXCEPT ![mult + p + 1] = c],
                              mult, p - 1, log_prec)

\* lines 466 to 478: the coefficient of index n, or <<>>
log_series_term(bwrec, shift, series, n) ==
    LET log_prec == log_series_prec(shift)
        mult == log_series_mult(shift, n)
        solved == log_series_solve(bwrec, series, n,
                      [p \in 1..log_prec |-> <<0, 1>>], mult,
                      log_prec - mult - 1, log_prec)
    IN  IF solved = <<>> THEN <<>>
        ELSE [p \in 1..log_prec |->
                 IF p <= mult THEN shift_get(shift, n)[p] ELSE solved[p]]

\* one iteration of the loop of line 466
LogSeriesIter ==
    /\ ls.pc = "loop"
    /\ ls.n < ls.order
    /\ LET t == log_series_term(ls.bwrec, ls.shift, ls.series, ls.n)
       IN  IF t = <<>>
           THEN ls' = [ls EXCEPT !.pc = "raised", !.exn = "ZeroDivisionError"]
           ELSE ls' = [ls EXCEPT !.series = Append(@, t), !.n = @ + 1]
    /\ UNCHANGED <<stmVars, pathVars, nextId, chk, lbm, liv, sm, ac, dw, lv>>

\* return series
LogSeriesReturn ==
    /\ ls.pc = "loop"
    /\ ls.n >= ls.order
    /\ ls' = [ls EXCEPT !.pc = "returned"]
    /\ UNCHANGED <<stmVars, pathVars, nextId, chk, lbm, liv, sm, ac, dw, lv>>

\* recurrences with the indices and multiplicities of the roots of their
\* first coefficient: theta^2 + x^2 (Bessel), theta*(theta - 2) + x,
\* theta - x, theta^2*(theta - 1) - x
LogRecBessel == [bwrec |-> <<<<0, 0, 1>>, <<>>, <<1>>>>, mults |-> <<2>>]
LogRecShifted == [bwrec |-> <<<<0, -2, 1>>, <<1>>>>, mults |-> <<1, 0, 1>>]
LogRecExp == [bwrec |-> <<<<0, 1>>, <<-1>>>>, mults |-> <<1>>]
LogRecCubic == [bwrec |-> <<<<0, 0, -1, 1>>, <<-1>>>>, mults |-> <<2, 1>>]
LogRecs == {LogRecBessel, LogRecShifted, LogRecExp, LogRecCubic}

\* the initial values ini.shift of the multiplicities mults, or of one value
\* at index 0 only
LogInis(mults) ==
    {s \in [1..Len(mults) -> UNION {[1..m -> {<<0, 1>>, <<1, 1>>}] : m \in 0..MaxTuple}] :
        \/ \A k \in 1..Len(mults) : Len(s[k]) = mults[k]
        \/ Len(s[1]) = 1 /\ \A k \in 2..Len(mults) : s[k] = <<>>}

InitLogSeries ==
    /\ ctx = dctx
    /\ oper = DopBessel
    /\ stack = <<>>
    /\ outcome = NoResult
    /\ lastCall = NoCall
    /\ lastSplit = NoSplit
    /\ nextId = 1
    /\ vert = <<>>
    /\ new = <<>>
    /\ idx = 0
    /\ ppc = "idle"
    /\ pass = 0
    /\ first = <<>>
    /\ lastIter = NoIter
    /\ raised = "none"
    /\ chk = NoChk
    /\ lbm = NoLbm
    /\ liv = NoLiv
    /\ sm = NoSm
    /\ ac = NoAc
    /\ dw = NoDw
    /\ \E rec \in LogRecs, order \in 0..MaxN :
       \E shift \in LogInis(rec.mults) :
        ls = [pc |-> "loop", bwrec |-> rec.bwrec, mults |-> rec.mults,
              shift |-> shift, order |-> order, n |-> 0, series |-> <<>>,
              exn |-> "none"]
    /\ lv = NoLv

NextLogSeries ==
    \/ LogSeriesIter
    \/ LogSeriesReturn

SpecLogSeries == InitLogSeries /\ [][NextLogSeries]_vars


\* the left-hand side of the recurrence at the index n and the slot p: the
\* sum over i from 0 to min(n, bwrec.order) and over j of the j-th Taylor
\* coefficient of bwrec[i] at n times the slot p + j of the coefficient of
\* index n - i
RecurrenceAt(n, p) ==
    LET ord == Len(ls.bwrec) - 1
        prev == IF ord < n THEN ord ELSE n
        log_prec == log_series_prec(ls.shift)
    IN  QSum([k \in 1..((prev + 1) * (log_prec - p)) |->
                 LET i == (k - 1) \div (log_prec - p)
                     j == (k - 1) % (log_prec - p)
                 IN  QMul(eval_series(ls.bwrec, n, i, j), ls.series[n + 1 - i][p + j + 1])],
             1, (prev + 1) * (log_prec - p))

\* the initial values give every root of bwrec[0] its multiplicity
ValidIni == \A k \in 1..Len(ls.mults) : Len(ls.shift[k]) = ls.mults[k]

\* C28: log_series returns order vectors of log_prec entries, log_prec the
\* sum of the lengths of the values of ini.shift; at an index n that is a key
\* of ini.shift, with m initial values, the slots 0 to m - 1 of the
\* coefficient n are these initial values; and when the initial values give
\* each root its multiplicity the call returns and the slots m to
\* log_prec - 1 satisfy the recurrence with the min(n, bwrec.order)
\* coefficients before.
Thm_C28 ==
    /\ ValidIni => ls.pc # "raised"
    /\ ls.pc = "returned" =>
        LET log_prec == log_series_prec(ls.shift)
        IN  /\ Len(ls.series) = ls.order
            /\ \A n \in 0..(ls.order - 1) :
                LET m == Len(shift_get(ls.shift, n))
                IN  /\ Len(ls.series[n + 1]) = log_prec
                    /\ \A p \in 1..m : ls.series[n + 1][p] = shift_get(ls.shift, n)[p]
                    /\ ValidIni =>
                           \A p \in 0..(log_prec - m - 1) : RecurrenceAt(n, p) = <<0, 1>>

Witness_C28 ==
    /\ ls.pc = "returned"
    /\ ls.bwrec = LogRecShifted.bwrec
    /\ ls.shift = <<<<QInt(1)>>, <<>>, <<QInt(1)>>>>
    /\ ls.order = 4
    /\ ls.series[3][1] = <<1, 1>>
    /\ ls.series[3][2] # <<0, 1>>
    /\ ls.series[4][1] # <<0, 1>>


(***************************************************************************)
(* log_series_values(Jets, expo, psum, evpt, downshift).  The value of the *)
(* series shifted down by d on the branch b is not computed: it is the     *)
(* pair <<d, b>>, and an entry of val is the sequence of the pairs added   *)
(* to it.  A vector returned is [terms, divisor, length]: the sum of terms *)
(* divided by divisor, cut to length entries.  The call is at one of the   *)
(* positions "start", "loop" (at the head of the loop over evpt.branch),   *)
(* "returned", "raised".                                                   *)
(***************************************************************************)
\* the loop of lines 528 to 532 over the downshifts from the k-th on: the
\* list val, or <<>> when val[d] is out of range
RECURSIVE add_downshifts(_, _, _, _)
add_downshifts(val, downshift, k, b) ==
    IF k > Len(downshift) THEN val
    ELSE LET d == downshift[k]
         IN  IF d + 1 > Len(val) THEN <<>>
             ELSE add_downshifts([val EXCEPT ![d + 1] = Append(@, <<d, b>>)],
                                 downshift, k + 1, b)

\* lines 499 to 516
LogSeriesValues ==
    /\ lv.pc = "start"
    /\ IF lv.log_prec # 0 /\ \E k \in 1..Len(lv.downshift) : lv.downshift[k] >= lv.log_prec
       THEN lv' = [lv EXCEPT !.pc = "raised", !.exn = "AssertionError"]
       ELSE IF ~lv.is_numeric
       THEN IF ~lv.expo_zero \/ lv.log_prec > 1
            THEN lv' = [lv EXCEPT !.pc = "raised", !.exn = "NotImplementedError"]
            ELSE IF lv.log_prec = 0
            THEN lv' = [lv EXCEPT !.pc = "raised", !.exn = "IndexError"]
            ELSE lv' = [lv EXCEPT !.pc = "returned",
                                  !.ret = <<[terms |-> <<<<0, 0>>>>, divisor |-> 1,
                                             length |-> lv.jet_order]>>]
       ELSE lv' = [lv EXCEPT !.pc = "loop", !.i = 1,
                             !.val = [k \in 1..Len(lv.downshift) |-> <<>>]]
    /\ UNCHANGED <<stmVars, pathVars, nextId, chk, lbm, liv, sm, ac, dw, ls>>

\* one iteration of the loop of line 517 over evpt.branch
LogSeriesValuesBranch ==
    /\ lv.pc = "loop"
    /\ lv.i <= Len(lv.branch)
    /\ LET val == add_downshifts(lv.val, lv.downshift, 1, lv.branch[lv.i])
       IN  IF val = <<>> /\ lv.downshift # <<>>
           THEN lv' = [lv EXCEPT !.pc = "raised", !.exn = "IndexError"]
           ELSE lv' = [lv EXCEPT !.val = val, !.i = @ + 1]
    /\ UNCHANGED <<stmVars, pathVars, nextId, chk, lbm, liv, sm, ac, dw, ls>>

\* lines 533 to 535
LogSeriesValuesReturn ==
    /\ lv.pc = "loop"
    /\ lv.i > Len(lv.branch)
    /\ lv' = [lv EXCEPT !.pc = "returned",
                        !.ret = [k \in 1..Len(lv.val) |->
                                    [terms |-> lv.val[k], divisor |-> Len(lv.branch),
                                     length |-> lv.jet_order]]]
    /\ UNCHANGED <<stmVars, pathVars, nextId, chk, lbm, liv, sm, ac, dw, ls>>

\* the calls: the log precision of psum, whether expo is 0, whether the
\* point is numeric, its branches and jet order, the list of downshifts
LvDownshifts == UNION {[1..m -> 0..MaxTuple] : m \in 0..MaxTuple}
LvBranches == UNION {[1..m -> 0..1] : m \in 1..2}

InitLogSeriesValues ==
    /\ ctx = dctx
    /\ oper = DopBessel
    /\ stack = <<>>
    /\ outcome = NoResult
    /\ lastCall = NoCall
    /\ lastSplit = NoSplit
    /\ nextId = 1
    /\ vert = <<>>
    /\ new = <<>>
    /\ idx = 0
    /\ ppc = "idle"
    /\ pass = 0
    /\ first = <<>>
    /\ lastIter = NoIter
    /\ raised = "none"
    /\ chk = NoChk
    /\ lbm = NoLbm
    /\ liv = NoLiv
    /\ sm = NoSm
    /\ ac = NoAc
    /\ dw = NoDw
    /\ ls = NoLs
    /\ \E log_prec \in 0..(MaxTuple + 1), z \in BOOLEAN, num \in BOOLEAN,
          branch \in LvBranches, jet \in 1..2, downshift \in LvDownshifts :
        lv = [pc |-> "start", log_prec |-> log_prec, expo_zero |-> z,
              is_numeric |-> num, branch |-> branch, jet_order |-> jet,
              downshift |-> downshift, i |-> 0, val |-> <<>>, ret |-> <<>>,
              exn |-> "none"]

NextLogSeriesValues ==
    \/ LogSeriesValues
    \/ LogSeriesValuesBranch
    \/ LogSeriesValuesReturn

SpecLogSeriesValues == InitLogSeriesValues /\ [][NextLogSeriesValues]_vars

\* C29 as claimed: for a numeric point and downshifts below the log
\* precision, log_series_values returns one vector of jet_order entries for
\* each element of downshift, the k-th being the sum over the branches of
\* evpt.branch of the values for the downshift downshift[k], divided by the
\* number of branches.
CE_C29 ==
    ( /\ lv.pc \in {"returned", "raised"}
      /\ lv.is_numeric
      /\ \A k \in 1..Len(lv.downshift) : lv.downshift[k] < lv.log_prec ) =>
        /\ lv.pc = "returned"
        /\ Len(lv.ret) = Len(lv.downshift)
        /\ \A k \in 1..Len(lv.downshift) :
            /\ lv.ret[k].terms = [i \in 1..Len(lv.branch) |-> <<lv.downshift[k], lv.branch[i]>>]
            /\ lv.ret[k].divisor = Len(lv.branch)
            /\ lv.ret[k].length = lv.jet_order

\* for the lists downshift = [0, 1, ..., r - 1] the vectors are as claimed
HoldsForInitialSegments ==
    ( /\ lv.pc \in {"returned", "raised"}
      /\ lv.is_numeric
      /\ \A k \in 1..Len(lv.downshift) : lv.downshift[k] = k - 1
      /\ Len(lv.downshift) <= lv.log_prec ) =>
        /\ lv.pc = "returned"
        /\ Len(lv.ret) = Len(lv.downshift)
        /\ \A k \in 1..Len(lv.downshift) :
            /\ lv.ret[k].terms = [i \in 1..Len(lv.branch) |-> <<k - 1, lv.branch[i]>>]
            /\ lv.ret[k].divisor = Len(lv.branch)
            /\ lv.ret[k].length = lv.jet_order

=============================================================================
